---------------------------- MODULE Spec2Model ----------------------------
(***************************************************************************)
(* A model of Ghost.py (src/ghost/ghost.py): the synchronous scripting      *)
(* surface of Ghost laid over the callback-driven QtWebKit engine.          *)
(*                                                                          *)
(* The script runs on one thread.  The engine delivers its callbacks        *)
(* (loadStarted, loadFinished, finished, unsupportedContent, the three      *)
(* JavaScript dialog hooks) only while the script is inside an engine       *)
(* call: evaluateJavaScript, QWebFrame.load or QApplication.processEvents.  *)
(* The call stack of the script is the variable stack; a frame whose pc is  *)
(* an engine label is a point where callbacks may run.                      *)
(***************************************************************************)
EXTENDS Integers, Sequences, FiniteSets, TLC

(***************************************************************************)
(* Bounds of the model.                                                     *)
(***************************************************************************)
\* wait_timeout of every session, in clock ticks
WaitTimeout == 2
\* the longest time one iteration of wait_for (sleep, pump, callback) takes
MaxStep == 2
\* number of network exchanges that complete in a run
MaxExchanges == 2
\* number of confirm/prompt scopes entered in a run
MaxScopes == 2
\* depth of nested scopes, and of dialog hooks running inside callbacks
MaxNest == 2
\* invocations of one expectation's callback that are counted
MaxCalls == 2
\* number of fields in the values given to fill
MaxFields == 2
\* authentication challenges delivered to a session between two opens
MaxChallenges == 2
\* constructions attempted in one process
MaxAttempts == 3

\* The clock's bound: an operation that may wait begins by MaxStep, so that
\* every wait begun can run until it times out.
MaxClock == WaitTimeout + 2 * MaxStep

Sessions == {1, 2}
Urls == {"u1", "u2"}
\* HttpStatusCodeAttribute of a reply; 0 stands for None (no HTTP status)
Statuses == {0, 200}
\* the raw headers of a reply: bytes that are all ASCII, or with a byte
\* outside ASCII (a Latin-1 header value)
RawHeaders == {"ascii", "latin1"}
Messages == {"hi", "bye"}
\* a callback argument: <<>> is None, <<"cb">> a callable
Callbacks == {<<>>, <<"cb">>}
PromptValues == {"", "v"}
\* the auth argument of open: <<>> is None, <<c>> a (username, password)
Credentials == {[user |-> "u", password |-> "p"],
                [user |-> "v", password |-> "q"]}
AuthInputs == {<<>>} \cup {<<c>> : c \in Credentials}
\* QUrl.toString(): the text of a URL, a string
UrlToString(u) == [type |-> "str", text |-> u]
\* a QUrl object, which no string is equal to
QUrl(u) == [type |-> "QUrl", text |-> u]
\* sys.platform
Platforms == {"linux2", "win32"}
\* os.environ's DISPLAY: <<>> when the variable is not set
Displays == {<<>>, <<":0">>}
\* The hosts a process may run on: the platform, the DISPLAY the process is
\* started with, and whether Popen(['Xvfb', ':99']) finds the program.
Hosts == [platform : Platforms, display : Displays, xvfb_installed : BOOLEAN]
\* the authenticator's argument mix: a QNetworkReply or a QNetworkProxy
Mixes == {"reply", "proxy"}

\* The documents a main frame can show, and the selectors (and texts)
\* each contains.  "#missing" matches nothing in any of them.
Pages == {"blank", "form"}
Selectors == {"#go", "#field", "#file", "#missing"}
Texts == {"hello"}
Present(page) ==
    IF page = "form" THEN {"#go", "#field", "#file", "hello"} ELSE {}

\* What set_field_value sees of the element: its tag and type attribute.
ElementKind(sel) ==
    CASE sel = "#field" -> "text"
      [] sel = "#file"  -> "file"
      [] OTHER          -> "othertag"

VARIABLES
    alert,              \* Ghost._alert: <<>> (None) or <<message>>
    confirm_expected,   \* Ghost._confirm_expected: <<>> or <<expectation>>
    prompt_expected,    \* Ghost._prompt_expected: <<>> or <<expectation>>
    loaded,             \* self.loaded, per session
    http_resources,     \* self.http_resources, per session
    page,               \* the document of each session's main frame
    frame_url,          \* main_frame.url() of each session
    now,                \* time.time()
    wait_callback,      \* self.wait_callback, per session: <<>> is None
    stack,              \* the script's call stack, innermost frame last
    ret,                \* the value returned by the inner call that returned last
    outcome,            \* history: what the operation that just ended did
    scopes,             \* the with-blocks the script is inside, innermost last
    lastDialog,         \* what the last confirm/prompt/alert hook did
    nextExp,            \* history: scopes entered so far
    cbCalls,            \* history: callback invocations per expectation
    nextId,             \* history: exchanges completed so far
    sinceDrain,         \* history: records appended since the caller last
                        \*   received a resource list, per session
    lastAlert,          \* history: the message of the last alert raised
    alertNew,           \* history: an alert was raised since wait_for_alert
                        \*   last took one
    domStable,          \* history: no document change since the operation began
    finishedSince,      \* history: loadFinished ran since the wrapper/open
                        \*   marked the page as not loaded
    openLoad,           \* history: the load callbacks delivered to the
                        \*   session since its open was called: "none",
                        \*   "started", "finished" (started, then finished)
                        \*   or "other"
    drainHist,          \* history, per session: the ids of the records
                        \*   handed over by drains so far (ids); no exchange
                        \*   has completed since the last drain (quiet)
    auth,               \* self._auth, per session: <<>> is None (or not set)
    auth_attempt,       \* self._auth_attempt, per session: <<>> before the
                        \*   first open sets the attribute
    authenticator,      \* the QAuthenticator handed to the session's last
                        \*   challenge, as _authenticate left it
    authHist,           \* history, per session, since its last open: the
                        \*   challenges delivered, those that set user and
                        \*   password, and whether the last one raised
    PYSIDE,             \* the module's PYSIDE: TRUE when the binding
                        \*   imported is PySide, FALSE when it is PyQt4
    app,                \* Ghost._app: <<>> (None) or <<the QApplication>>
    exited,             \* the sessions constructed whose exit has run
    host,               \* the host of the process, fixed: see Hosts
    environ,            \* os.environ's DISPLAY: <<>> when not set
    xvfb,               \* Ghost.xvfb: <<>> while the class has no such
                        \*   attribute, else <<the Xvfb subprocess>> with
                        \*   the number of terminate() calls it received
    constructed,        \* the sessions whose construction has ended
    initHist,           \* history of the constructions attempted: their
                        \*   number, the Xvfb processes spawned, and the
                        \*   error the last attempt ended by
    scopeHist           \* history, per scope entered and still active: a
                        \*   dialog of its kind was raised since it was
                        \*   entered (fired); a scope of its kind has exited
                        \*   inside it (undone)

classVars == <<alert, confirm_expected, prompt_expected>>
sessVars == <<loaded, http_resources, page, frame_url>>
callVars == <<stack, ret, outcome>>
scopeVars == <<scopes, nextExp>>
dialogHist == <<lastDialog, cbCalls>>
alertHist == <<lastAlert, alertNew>>
resHist == <<nextId, sinceDrain>>
loadHist == <<domStable, finishedSince>>
authVars == <<auth, auth_attempt, authenticator, authHist>>
hostVars == <<host, environ, xvfb, constructed, initHist, PYSIDE, app, exited>>
vars == <<alert, confirm_expected, prompt_expected, loaded,
          http_resources, page, frame_url, now, wait_callback, stack, ret,
          outcome, scopes, nextExp, lastDialog, cbCalls, nextId,
          sinceDrain, lastAlert, alertNew, domStable, finishedSince,
          openLoad, scopeHist, drainHist, auth, auth_attempt,
          authenticator, authHist, host, environ, xvfb, constructed,
          initHist, PYSIDE, app, exited>>

(***************************************************************************)
(* Values.                                                                  *)
(***************************************************************************)
\* A returned value: the first item of the tuple the operation returns
\* (val), the resource list (res), the page resource of open and
\* wait_for_page_loaded (<<>> is None) and the region of region_for_selector.
NoValue == [val |-> "None", res |-> <<>>, page |-> <<>>, region |-> <<>>]

NoOutcome ==
    [op |-> "none", self |-> 0, sel |-> "", exp |-> FALSE, status |-> "none",
     err |-> "", value |-> NoValue, expected |-> <<>>, missing |-> FALSE,
     waited |-> FALSE, elapsed |-> 0, dur |-> 0, finished |-> FALSE,
     alerted |-> FALSE, pumps |-> 0, cbs |-> 0, load |-> "none",
     after |-> "", kept |-> <<>>]

NoDialog ==
    [kind |-> "none", status |-> "none", bval |-> FALSE, sval |-> "",
     via |-> "", eid |-> 0]

NoScopeHist == [fired |-> FALSE, undone |-> FALSE]

NoInitHist == [attempts |-> 0, spawns |-> 0, err |-> ""]

\* A QAuthenticator as the engine hands it over: no user, no password.
NoAuthenticator == [user |-> <<>>, password |-> <<>>]

NoAuthHist == [challenges |-> 0, supplied |-> 0, raised |-> FALSE]

\* A frame of the call stack.
NoFrame ==
    [fn |-> "", pc |-> "", self |-> 0, sel |-> "", exp |-> FALSE,
     blur |-> TRUE, cond |-> "", t0 |-> 0, todo |-> <<>>, acc |-> <<>>,
     val |-> "None", rv |-> NoValue, eid |-> 0, called |-> 0,
     pumps |-> 0, cbs |-> 0, after |-> "", kept |-> <<>>]

Top == stack[Len(stack)]
Pop == SubSeq(stack, 1, Len(stack) - 1)
Idle == stack = <<>>
SetTop(f) == [stack EXCEPT ![Len(stack)] = f]
Push(caller, callee) == Append(SetTop(caller), callee)

\* The labels at which the script is inside the engine, so that the engine
\* may run callbacks: evaluateJavaScript (ev_js), QWebFrame.load (op_load),
\* processEvents (wf_pump), the element mutators of set_field_value,
\* el.setFocus() and el.setAttribute() or el.setPlainText(), which run the
\* page's focus and mutation handlers (sf_set), and a dialog callback
\* supplied by the caller (callback), which may itself drive the page.
EnginePcs == {"ev_js", "op_load", "wf_pump", "sf_set", "callback"}
InEngine == ~Idle /\ Top.pc \in EnginePcs

Init ==
    /\ alert = <<>>
    /\ confirm_expected = <<>>
    /\ prompt_expected = <<>>
    /\ loaded = [s \in Sessions |-> TRUE]
    /\ http_resources = [s \in Sessions |-> <<>>]
    /\ page = [s \in Sessions |-> "blank"]
    /\ frame_url = [s \in Sessions |-> "u1"]
    /\ now = 0
    /\ wait_callback = [s \in Sessions |-> <<>>]
    /\ stack = <<>>
    /\ ret = NoValue
    /\ outcome = NoOutcome
    /\ scopes = <<>>
    /\ lastDialog = NoDialog
    /\ nextExp = 0
    /\ cbCalls = [i \in 1..MaxScopes |-> 0]
    /\ nextId = 0
    /\ sinceDrain = [s \in Sessions |-> <<>>]
    /\ lastAlert = <<>>
    /\ alertNew = FALSE
    /\ domStable = TRUE
    /\ finishedSince = [s \in Sessions |-> FALSE]
    /\ openLoad = [s \in Sessions |-> "none"]
    /\ scopeHist = [i \in 1..MaxScopes |-> NoScopeHist]
    /\ drainHist = [s \in Sessions |-> [ids |-> {}, quiet |-> TRUE]]
    /\ auth = [s \in Sessions |-> <<>>]
    /\ auth_attempt = [s \in Sessions |-> <<>>]
    /\ authenticator = [s \in Sessions |-> NoAuthenticator]
    /\ authHist = [s \in Sessions |-> NoAuthHist]
    /\ host = [platform |-> "linux2", display |-> <<":0">>,
               xvfb_installed |-> TRUE]
    /\ environ = host.display
    /\ xvfb = <<>>
    /\ constructed = Sessions
    /\ initHist = NoInitHist
    /\ PYSIDE \in BOOLEAN
    /\ app = <<"QApplication">>
    /\ exited = {}

\* The state after construction when the first session is constructed with
\* or without a wait callback, Ghost(wait_callback=...).
InitPoll ==
    /\ alert = <<>>
    /\ confirm_expected = <<>>
    /\ prompt_expected = <<>>
    /\ loaded = [s \in Sessions |-> TRUE]
    /\ http_resources = [s \in Sessions |-> <<>>]
    /\ page = [s \in Sessions |-> "blank"]
    /\ frame_url = [s \in Sessions |-> "u1"]
    /\ now = 0
    /\ wait_callback \in [Sessions -> Callbacks]
    /\ wait_callback[2] = <<>>
    /\ stack = <<>>
    /\ ret = NoValue
    /\ outcome = NoOutcome
    /\ scopes = <<>>
    /\ lastDialog = NoDialog
    /\ nextExp = 0
    /\ cbCalls = [i \in 1..MaxScopes |-> 0]
    /\ nextId = 0
    /\ sinceDrain = [s \in Sessions |-> <<>>]
    /\ lastAlert = <<>>
    /\ alertNew = FALSE
    /\ domStable = TRUE
    /\ finishedSince = [s \in Sessions |-> FALSE]
    /\ openLoad = [s \in Sessions |-> "none"]
    /\ scopeHist = [i \in 1..MaxScopes |-> NoScopeHist]
    /\ drainHist = [s \in Sessions |-> [ids |-> {}, quiet |-> TRUE]]
    /\ auth = [s \in Sessions |-> <<>>]
    /\ auth_attempt = [s \in Sessions |-> <<>>]
    /\ authenticator = [s \in Sessions |-> NoAuthenticator]
    /\ authHist = [s \in Sessions |-> NoAuthHist]
    /\ host = [platform |-> "linux2", display |-> <<":0">>,
               xvfb_installed |-> TRUE]
    /\ environ = host.display
    /\ xvfb = <<>>
    /\ constructed = Sessions
    /\ initHist = NoInitHist
    /\ PYSIDE \in BOOLEAN
    /\ app = <<"QApplication">>
    /\ exited = {}

\* The state of a process that has constructed no session yet.
InitHost ==
    /\ alert = <<>>
    /\ confirm_expected = <<>>
    /\ prompt_expected = <<>>
    /\ loaded = [s \in Sessions |-> TRUE]
    /\ http_resources = [s \in Sessions |-> <<>>]
    /\ page = [s \in Sessions |-> "blank"]
    /\ frame_url = [s \in Sessions |-> "u1"]
    /\ now = 0
    /\ wait_callback = [s \in Sessions |-> <<>>]
    /\ stack = <<>>
    /\ ret = NoValue
    /\ outcome = NoOutcome
    /\ scopes = <<>>
    /\ lastDialog = NoDialog
    /\ nextExp = 0
    /\ cbCalls = [i \in 1..MaxScopes |-> 0]
    /\ nextId = 0
    /\ sinceDrain = [s \in Sessions |-> <<>>]
    /\ lastAlert = <<>>
    /\ alertNew = FALSE
    /\ domStable = TRUE
    /\ finishedSince = [s \in Sessions |-> FALSE]
    /\ openLoad = [s \in Sessions |-> "none"]
    /\ scopeHist = [i \in 1..MaxScopes |-> NoScopeHist]
    /\ drainHist = [s \in Sessions |-> [ids |-> {}, quiet |-> TRUE]]
    /\ auth = [s \in Sessions |-> <<>>]
    /\ auth_attempt = [s \in Sessions |-> <<>>]
    /\ authenticator = [s \in Sessions |-> NoAuthenticator]
    /\ authHist = [s \in Sessions |-> NoAuthHist]
    /\ host \in Hosts
    /\ environ = host.display
    /\ xvfb = <<>>
    /\ constructed = {}
    /\ initHist = NoInitHist
    /\ PYSIDE \in BOOLEAN
    /\ app = <<>>
    /\ exited = {}

(***************************************************************************)
(* Ghost.__init__                                                           *)
(***************************************************************************)
\* the guard of the virtual display's block
NeedsXvfb == host.platform # "win32" /\ environ = <<>> /\ xvfb = <<>>

\* QApplication finds its display for sure: Windows needs none, and the
\* DISPLAY the process was started with is taken to be served.  Display :99
\* is served only if an Xvfb listens there: the one just started by Popen
\* may not listen yet, one started earlier may have been terminated, and
\* there may be none.
DisplayReachable(display) ==
    host.platform = "win32" \/ (display # <<>> /\ display = host.display)

\* Ghost(wait_callback=cb): a new session object.  The block sets DISPLAY
\* and then spawns Xvfb; an OSError of the spawn becomes the 'Xvfb is
\* required' error.  Past the block, a process without QApplication makes
\* one, which connects to the display: when the display is not sure to be
\* there, either outcome is allowed.
Construct(self, cb) ==
    /\ Idle
    /\ self \notin constructed
    /\ initHist.attempts < MaxAttempts
    /\ IF NeedsXvfb /\ ~host.xvfb_installed
       THEN /\ environ' = <<":99">>
            /\ initHist' = [initHist EXCEPT !.attempts = @ + 1,
                                            !.err = "xvfb"]
            /\ UNCHANGED <<xvfb, app, constructed, loaded, http_resources,
                           wait_callback, page, frame_url, sinceDrain,
                           finishedSince, openLoad, drainHist, authVars>>
       ELSE /\ environ' = IF NeedsXvfb THEN <<":99">> ELSE environ
            /\ xvfb' = IF NeedsXvfb
                       THEN <<[cmd |-> "Xvfb :99", terminated |-> 0]>>
                       ELSE xvfb
            /\ \E ok \in (IF app # <<>> \/ DisplayReachable(environ')
                           THEN {TRUE} ELSE BOOLEAN) :
                  /\ initHist' =
                         [attempts |-> initHist.attempts + 1,
                          spawns |-> initHist.spawns
                                       + (IF NeedsXvfb THEN 1 ELSE 0),
                          err |-> IF ok THEN "" ELSE "engine"]
                  /\ app' = IF ok THEN <<"QApplication">> ELSE app
                  /\ constructed' = IF ok THEN constructed \cup {self}
                                          ELSE constructed
            /\ http_resources' = [http_resources EXCEPT ![self] = <<>>]
            /\ wait_callback' = [wait_callback EXCEPT ![self] = cb]
            /\ loaded' = [loaded EXCEPT ![self] = TRUE]
            /\ page' = [page EXCEPT ![self] = "blank"]
            /\ frame_url' = [frame_url EXCEPT ![self] = "u1"]
            /\ sinceDrain' = [sinceDrain EXCEPT ![self] = <<>>]
            /\ finishedSince' = [finishedSince EXCEPT ![self] = FALSE]
            /\ openLoad' = [openLoad EXCEPT ![self] = "none"]
            /\ drainHist' = [drainHist EXCEPT ![self].quiet = TRUE]
            /\ auth' = [auth EXCEPT ![self] = <<>>]
            /\ auth_attempt' = [auth_attempt EXCEPT ![self] = <<>>]
            /\ authenticator' =
                   [authenticator EXCEPT ![self] = NoAuthenticator]
            /\ authHist' = [authHist EXCEPT ![self] = NoAuthHist]
    /\ UNCHANGED <<PYSIDE, exited, host>>
    /\ UNCHANGED <<classVars, now, callVars, scopeVars, dialogHist, nextId,
                   alertHist, domStable, scopeHist>>

(***************************************************************************)
(* Ghost.exit and Ghost.__del__                                             *)
(***************************************************************************)
\* self.xvfb.terminate(): the attribute is the class's, so the process
\* every session shares is the one terminated.
Terminated ==
    IF xvfb = <<>> THEN xvfb
    ELSE <<[xvfb[1] EXCEPT !.terminated = @ + 1]>>

\* What exit leaves: the QApplication is told to quit and stays Ghost._app,
\* the session loses manager, page and main_frame, and Xvfb is terminated
\* while Ghost.xvfb and DISPLAY stay.  A second exit of a session raises at
\* `del self.manager`, before the terminate.
Exit(self) ==
    /\ Idle
    /\ self \in constructed
    /\ IF self \in exited
       THEN UNCHANGED <<exited, xvfb>>
       ELSE /\ exited' = exited \cup {self}
            /\ xvfb' = Terminated
    /\ UNCHANGED <<PYSIDE, app, host, environ, constructed, initHist>>
    /\ UNCHANGED <<classVars, sessVars, now, wait_callback, callVars,
                   scopeVars, dialogHist, resHist, alertHist, loadHist,
                   openLoad, scopeHist, drainHist, authVars>>

\* __del__: the session is collected; its exit runs, and what it raises is
\* ignored.
Del(self) ==
    /\ Idle
    /\ self \in constructed
    /\ xvfb' = IF self \in exited THEN xvfb ELSE Terminated
    /\ constructed' = constructed \ {self}
    /\ exited' = exited \ {self}
    /\ UNCHANGED <<PYSIDE, app, host, environ, initHist>>
    /\ UNCHANGED <<classVars, sessVars, now, wait_callback, callVars,
                   scopeVars, dialogHist, resHist, alertHist, loadHist,
                   openLoad, scopeHist, drainHist, authVars>>

(***************************************************************************)
(* The engine's callbacks.  Each runs to completion inside an engine call   *)
(* of the script.                                                           *)
(***************************************************************************)

\* The load callbacks delivered to a session while its open is running:
\* loadStarted followed by loadFinished is the course of one load.
LoadPhase(self, event) ==
    IF Idle \/ stack[1].fn # "open" \/ stack[1].self # self
    THEN openLoad
    ELSE [openLoad EXCEPT ![self] =
            CASE event = "started" /\ @ = "none"     -> "started"
              [] event = "finished" /\ @ = "started" -> "finished"
              [] OTHER                                -> "other"]

\* A variant in which the flag is one per process.
PageLoaded_all(self) ==
    /\ InEngine
    /\ loaded' = [s \in Sessions |-> TRUE]
    /\ finishedSince' = [finishedSince EXCEPT ![self] = TRUE]
    /\ openLoad' = LoadPhase(self, "finished")
    /\ UNCHANGED <<classVars, http_resources, page, frame_url, now,
                   wait_callback, callVars, scopeVars, dialogHist, resHist,
                   alertHist, domStable, scopeHist, drainHist, authVars,
                   hostVars>>

\* Ghost._page_loaded: the slot of page.loadFinished
PageLoaded(self) ==
    /\ InEngine
    /\ loaded' = [loaded EXCEPT ![self] = TRUE]
    /\ finishedSince' = [finishedSince EXCEPT ![self] = TRUE]
    /\ openLoad' = LoadPhase(self, "finished")
    /\ UNCHANGED <<classVars, http_resources, page, frame_url, now,
                   wait_callback, callVars, scopeVars, dialogHist, resHist,
                   alertHist, domStable, scopeHist, drainHist, authVars,
                   hostVars>>

\* Ghost._page_load_started: the slot of page.loadStarted
PageLoadStarted(self) ==
    /\ InEngine
    /\ loaded' = [loaded EXCEPT ![self] = FALSE]
    /\ openLoad' = LoadPhase(self, "started")
    /\ UNCHANGED <<classVars, http_resources, page, frame_url, now,
                   wait_callback, callVars, scopeVars, dialogHist, resHist,
                   alertHist, loadHist, scopeHist, drainHist, authVars,
                   hostVars>>

\* A variant that supplies the credentials at every challenge.
FirstAttempt_always(self) == auth_attempt[self] # <<>>

\* `if self._auth_attempt == 0`
FirstAttempt(self) == auth_attempt[self] = <<0>>

\* Ghost._authenticate: the slot of the network manager's
\* authenticationRequired and proxyAuthenticationRequired.  Reading an
\* attribute open has not set yet, or unpacking None, raises inside the
\* slot: nothing is set and the counter is left as it was.
Authenticate(self, mix) ==
    /\ InEngine
    /\ authHist[self].challenges < MaxChallenges
    /\ IF auth_attempt[self] # <<>> /\ FirstAttempt(self)
          /\ auth[self] # <<>>
       THEN /\ authenticator' =
                   [authenticator EXCEPT ![self] =
                       [user |-> <<auth[self][1].user>>,
                        password |-> <<auth[self][1].password>>]]
            /\ auth_attempt' =
                   [auth_attempt EXCEPT ![self] = <<@[1] + 1>>]
            /\ authHist' =
                   [authHist EXCEPT ![self].challenges = @ + 1,
                                    ![self].supplied = @ + 1,
                                    ![self].raised = FALSE]
       ELSE /\ authenticator' =
                   [authenticator EXCEPT ![self] = NoAuthenticator]
            /\ auth_attempt' = auth_attempt
            /\ authHist' =
                   [authHist EXCEPT
                       ![self].challenges = @ + 1,
                       ![self].raised = \/ auth_attempt[self] = <<>>
                                        \/ /\ FirstAttempt(self)
                                           /\ auth[self] = <<>>]
    /\ UNCHANGED <<classVars, sessVars, now, wait_callback, callVars,
                   scopeVars, dialogHist, resHist, alertHist, loadHist,
                   openLoad, scopeHist, drainHist, auth, hostVars>>

\* unicode(reply.rawHeader(header)): the bytes are decoded as ASCII, and
\* a byte that is not ASCII raises UnicodeDecodeError.
unicode(raw) == IF raw = "ascii" THEN <<raw>> ELSE <<>>

\* HttpResource(reply, cache, content): url is the text of reply.url()
\* under PySide and the QUrl itself under PyQt4; content is read from the
\* cache unless the callback hands it over (a content that does not decode
\* is kept as it is); every raw header is converted with unicode(), outside
\* any try, so a header that does not decode raises out of the constructor:
\* <<>> stands for that, <<record>> for the object constructed.
HttpResource(reply, content) ==
    IF unicode(reply.headers) = <<>> THEN <<>>
    ELSE <<[id |-> reply.id,
            url |-> IF PYSIDE THEN UrlToString(reply.url)
                    ELSE QUrl(reply.url),
            http_status |-> reply.status,
            content |-> content,
            headers |-> unicode(reply.headers)[1]]>>

\* `if reply.attribute(HttpStatusCodeAttribute):
\*      self.http_resources.append(HttpResource(...))`: nothing is appended
\* for a reply without a status code, nor when the constructor raises (the
\* exception leaves the slot before append is called).
Appended(buffer, reply, content) ==
    IF reply.status # 0 THEN buffer \o HttpResource(reply, content)
    ELSE buffer

\* The body shared by _request_ended and _unsupported_content.
AppendResource(self, reply, content) ==
    /\ http_resources' = [http_resources EXCEPT
           ![self] = Appended(@, reply, content)]
    /\ sinceDrain' = [sinceDrain EXCEPT
           ![self] = Appended(@, reply, content)]

\* Ghost._request_ended: the slot of manager.finished
RequestEnded(self, url, status, headers) ==
    /\ InEngine
    /\ nextId < MaxExchanges
    /\ LET reply == [self |-> self, url |-> url, status |-> status,
                     headers |-> headers, via |-> "finished",
                     id |-> nextId + 1]
       IN  AppendResource(self, reply, "cache")
    /\ nextId' = nextId + 1
    /\ drainHist' = [drainHist EXCEPT ![self].quiet = FALSE]
    /\ UNCHANGED <<classVars, loaded, page, frame_url, now, wait_callback,
                   callVars, scopeVars, dialogHist, alertHist, loadHist,
                   openLoad, scopeHist, authVars, hostVars>>

\* Ghost._unsupported_content: the slot of page.unsupportedContent
UnsupportedContent(self, url, status, headers) ==
    /\ InEngine
    /\ nextId < MaxExchanges
    /\ LET reply == [self |-> self, url |-> url, status |-> status,
                     headers |-> headers, via |-> "unsupported",
                     id |-> nextId + 1]
       IN  AppendResource(self, reply, "body")
    /\ nextId' = nextId + 1
    /\ drainHist' = [drainHist EXCEPT ![self].quiet = FALSE]
    /\ UNCHANGED <<classVars, loaded, page, frame_url, now, wait_callback,
                   callVars, scopeVars, dialogHist, alertHist, loadHist,
                   openLoad, scopeHist, authVars, hostVars>>

\* The engine shows another document in the main frame (a load commits, or
\* a script rewrites the document).
DocumentChanged(self, p) ==
    /\ InEngine
    /\ p # page[self]
    /\ page' = [page EXCEPT ![self] = p]
    /\ domStable' = FALSE
    /\ UNCHANGED <<classVars, loaded, http_resources, frame_url, now,
                   wait_callback, callVars, scopeVars, dialogHist, resHist,
                   alertHist, finishedSince, openLoad, scopeHist, drainHist,
                   authVars, hostVars>>

\* The main frame's URL changes (a load commits).
UrlChanged(self, u) ==
    /\ InEngine
    /\ u # frame_url[self]
    /\ frame_url' = [frame_url EXCEPT ![self] = u]
    /\ UNCHANGED <<classVars, loaded, http_resources, page, now, wait_callback,
                   callVars, scopeVars, dialogHist, resHist, alertHist,
                   loadHist, openLoad, scopeHist, drainHist, authVars, hostVars>>

(***************************************************************************)
(* The dialog hooks of GhostWebPage and the scopes that arm them.           *)
(***************************************************************************)

\* the scopes of a kind the script is inside
ActiveIds(kind) ==
    {scopes[j].id : j \in {k \in DOMAIN scopes : scopes[k].kind = kind}}
\* a dialog of the kind is raised
Fired(kind) ==
    [i \in DOMAIN scopeHist |->
        IF i \in ActiveIds(kind)
        THEN [scopeHist[i] EXCEPT !.fired = TRUE] ELSE scopeHist[i]]
\* the innermost scope, of the kind, exits
Undone(kind) ==
    [i \in DOMAIN scopeHist |->
        IF i \in ActiveIds(kind) /\ i # scopes[Len(scopes)].id
        THEN [scopeHist[i] EXCEPT !.undone = TRUE] ELSE scopeHist[i]]
HookDepth == Cardinality({i \in DOMAIN stack : stack[i].pc = "callback"})

\* GhostWebPage.javaScriptAlert
JavaScriptAlert(message) ==
    /\ InEngine
    /\ alert' = <<message>>
    /\ lastAlert' = <<message>>
    /\ alertNew' = TRUE
    /\ lastDialog' = [NoDialog EXCEPT !.kind = "alert", !.status = "recorded",
                                      !.sval = message]
    /\ UNCHANGED <<confirm_expected, prompt_expected, sessVars, now,
                   wait_callback, callVars, scopeVars, cbCalls, resHist,
                   loadHist, openLoad, scopeHist, drainHist, authVars, hostVars>>

\* javaScriptConfirm with no expectation:
\* raise Exception('You must specified a value to confirm ...')
ConfirmUnhandled ==
    /\ lastDialog' = [NoDialog EXCEPT !.kind = "confirm",
                                      !.status = "unhandled"]
    /\ UNCHANGED <<confirm_expected, stack, cbCalls>>

\* GhostWebPage.javaScriptConfirm, up to the call of the callback
JavaScriptConfirm ==
    /\ InEngine
    /\ scopeHist' = Fired("confirm")
    /\ IF confirm_expected = <<>>
       THEN ConfirmUnhandled
       ELSE LET e == confirm_expected[1] IN
            /\ confirm_expected' = <<>>
            /\ IF e.callback # <<>>
               THEN /\ HookDepth < MaxNest
                    /\ cbCalls[e.id] < MaxCalls
                    /\ stack' = Append(stack,
                           [NoFrame EXCEPT !.fn = "javaScriptConfirm",
                                           !.pc = "callback", !.eid = e.id])
                    /\ cbCalls' = [cbCalls EXCEPT ![e.id] = @ + 1]
                    /\ lastDialog' = [NoDialog EXCEPT !.kind = "confirm",
                           !.status = "calling", !.eid = e.id]
               ELSE /\ lastDialog' = [NoDialog EXCEPT !.kind = "confirm",
                           !.status = "answered", !.bval = e.value,
                           !.via = "value", !.eid = e.id]
                    /\ UNCHANGED <<stack, cbCalls>>
    /\ UNCHANGED <<alert, prompt_expected, sessVars, now, wait_callback, ret,
                   outcome, scopeVars, resHist, alertHist, loadHist, openLoad,
                   drainHist, authVars, hostVars>>

\* A variant that answers the confirm dialog with "cancel" whatever the
\* callback computed.
ConfirmCallbackReturns_rejects(b) ==
    /\ ~Idle
    /\ Top.fn = "javaScriptConfirm" /\ Top.pc = "callback"
    /\ stack' = Pop
    /\ lastDialog' = [NoDialog EXCEPT !.kind = "confirm",
           !.status = "answered", !.bval = FALSE, !.via = "callback",
           !.eid = Top.eid]
    /\ UNCHANGED <<classVars, sessVars, now, wait_callback, ret, outcome,
                   scopeVars, cbCalls, resHist, alertHist, loadHist, openLoad,
                   scopeHist, drainHist, authVars, hostVars>>

\* javaScriptConfirm: return callback()
ConfirmCallbackReturns(b) ==
    /\ ~Idle
    /\ Top.fn = "javaScriptConfirm" /\ Top.pc = "callback"
    /\ stack' = Pop
    /\ lastDialog' = [NoDialog EXCEPT !.kind = "confirm",
           !.status = "answered", !.bval = b, !.via = "callback",
           !.eid = Top.eid]
    /\ UNCHANGED <<classVars, sessVars, now, wait_callback, ret, outcome,
                   scopeVars, cbCalls, resHist, alertHist, loadHist, openLoad,
                   scopeHist, drainHist, authVars, hostVars>>

\* A variant that accepts an unexpected prompt with the empty string.
PromptUnhandled_accepts ==
    /\ lastDialog' = [NoDialog EXCEPT !.kind = "prompt",
                                      !.status = "answered", !.bval = TRUE]
    /\ UNCHANGED <<prompt_expected, stack, cbCalls>>

\* javaScriptPrompt with no expectation:
\* raise Exception('You must specified a value for prompt ...')
PromptUnhandled ==
    /\ lastDialog' = [NoDialog EXCEPT !.kind = "prompt",
                                      !.status = "unhandled"]
    /\ UNCHANGED <<prompt_expected, stack, cbCalls>>

\* GhostWebPage.javaScriptPrompt, up to the call of the callback
JavaScriptPrompt ==
    /\ InEngine
    /\ scopeHist' = Fired("prompt")
    /\ IF prompt_expected = <<>>
       THEN PromptUnhandled
       ELSE LET e == prompt_expected[1] IN
            IF e.callback # <<>>
            THEN /\ HookDepth < MaxNest
                 /\ cbCalls[e.id] < MaxCalls
                 /\ stack' = Append(stack,
                        [NoFrame EXCEPT !.fn = "javaScriptPrompt",
                                        !.pc = "callback", !.eid = e.id])
                 /\ cbCalls' = [cbCalls EXCEPT ![e.id] = @ + 1]
                 /\ lastDialog' = [NoDialog EXCEPT !.kind = "prompt",
                        !.status = "calling", !.eid = e.id]
                 /\ UNCHANGED prompt_expected
            ELSE /\ prompt_expected' = <<>>
                 /\ lastDialog' = [NoDialog EXCEPT !.kind = "prompt",
                        !.status = "answered", !.bval = TRUE,
                        !.sval = e.value, !.via = "value", !.eid = e.id]
                 /\ UNCHANGED <<stack, cbCalls>>
    /\ UNCHANGED <<alert, confirm_expected, sessVars, now, wait_callback, ret,
                   outcome, scopeVars, resHist, alertHist, loadHist, openLoad,
                   drainHist, authVars, hostVars>>

\* javaScriptPrompt: result_value = callback(), and the rest of the hook
PromptCallbackReturns(v) ==
    /\ ~Idle
    /\ Top.fn = "javaScriptPrompt" /\ Top.pc = "callback"
    /\ stack' = Pop
    /\ prompt_expected' = <<>>
    /\ lastDialog' = [NoDialog EXCEPT !.kind = "prompt",
           !.status = "answered", !.bval = TRUE, !.sval = v,
           !.via = "callback", !.eid = Top.eid]
    /\ UNCHANGED <<alert, confirm_expected, sessVars, now, wait_callback, ret,
                   outcome, scopeVars, cbCalls, resHist, alertHist, loadHist,
                   openLoad, scopeHist, drainHist, authVars, hostVars>>

\* The callback raises: the hook is left at the call, and the exception
\* ends in the binding, which reports it and goes on with the engine call.
CallbackRaises ==
    /\ ~Idle
    /\ Top.pc = "callback"
    /\ stack' = Pop
    /\ lastDialog' = [NoDialog EXCEPT !.kind = IF Top.fn = "javaScriptConfirm"
                                                THEN "confirm" ELSE "prompt",
           !.status = "raised", !.eid = Top.eid]
    /\ UNCHANGED <<classVars, sessVars, now, wait_callback, ret, outcome,
                   scopeVars, cbCalls, resHist, alertHist, loadHist, openLoad,
                   scopeHist, drainHist, authVars, hostVars>>

\* Ghost.confirm.__enter__, after Ghost.confirm.__init__
ConfirmEnter(confirm, callback) ==
    /\ Idle
    /\ nextExp < MaxScopes
    /\ Len(scopes) < MaxNest
    /\ confirm_expected' =
           <<[value |-> confirm, callback |-> callback, id |-> nextExp + 1]>>
    /\ scopes' = Append(scopes, [kind |-> "confirm", id |-> nextExp + 1])
    /\ nextExp' = nextExp + 1
    /\ UNCHANGED <<alert, prompt_expected, sessVars, now, wait_callback,
                   callVars, dialogHist, resHist, alertHist, loadHist,
                   openLoad, scopeHist, drainHist, authVars, hostVars>>

\* Ghost.prompt.__enter__, after Ghost.prompt.__init__
PromptEnter(value, callback) ==
    /\ Idle
    /\ nextExp < MaxScopes
    /\ Len(scopes) < MaxNest
    /\ prompt_expected' =
           <<[value |-> value, callback |-> callback, id |-> nextExp + 1]>>
    /\ scopes' = Append(scopes, [kind |-> "prompt", id |-> nextExp + 1])
    /\ nextExp' = nextExp + 1
    /\ UNCHANGED <<alert, confirm_expected, sessVars, now, wait_callback,
                   callVars, dialogHist, resHist, alertHist, loadHist,
                   openLoad, scopeHist, drainHist, authVars, hostVars>>

\* A variant that leaves the expectation in place when the scope ends.
ConfirmExit_keeps ==
    /\ Idle
    /\ scopes # <<>>
    /\ scopes[Len(scopes)].kind = "confirm"
    /\ scopes' = SubSeq(scopes, 1, Len(scopes) - 1)
    /\ scopeHist' = Undone("confirm")
    /\ UNCHANGED <<classVars, sessVars, now, wait_callback, callVars, nextExp,
                   dialogHist, resHist, alertHist, loadHist, openLoad,
                   drainHist, authVars, hostVars>>

\* Ghost.confirm.__exit__
ConfirmExit ==
    /\ Idle
    /\ scopes # <<>>
    /\ scopes[Len(scopes)].kind = "confirm"
    /\ confirm_expected' = <<>>
    /\ scopes' = SubSeq(scopes, 1, Len(scopes) - 1)
    /\ scopeHist' = Undone("confirm")
    /\ UNCHANGED <<alert, prompt_expected, sessVars, now, wait_callback,
                   callVars, nextExp, dialogHist, resHist, alertHist, loadHist,
                   openLoad, drainHist, authVars, hostVars>>

\* Ghost.prompt.__exit__
PromptExit ==
    /\ Idle
    /\ scopes # <<>>
    /\ scopes[Len(scopes)].kind = "prompt"
    /\ prompt_expected' = <<>>
    /\ scopes' = SubSeq(scopes, 1, Len(scopes) - 1)
    /\ scopeHist' = Undone("prompt")
    /\ UNCHANGED <<alert, confirm_expected, sessVars, now, wait_callback,
                   callVars, nextExp, dialogHist, resHist, alertHist, loadHist,
                   openLoad, drainHist, authVars, hostVars>>

(***************************************************************************)
(* The script's side: calls, returns and exceptions.                        *)
(***************************************************************************)
DecoratedOps == {"click", "evaluate", "fill", "fire_on", "set_field_value"}
WaitOps == {"wait_for_alert", "wait_for_selector", "wait_for_text",
            "wait_for_page_loaded"}
\* the operations that hand a resource list to their caller
DrainingOps == DecoratedOps \cup WaitOps \cup {"open"}
ElementOps == {"click", "fill", "set_field_value", "fire_on",
               "region_for_selector", "capture"}
\* the operations that evaluate a script and keep no resource list
DroppingOps == {"evaluate_js_file", "global_exists"}
Ops == DrainingOps \cup DroppingOps
           \cup {"region_for_selector", "capture"}

\* The first label of a function's body.
Entry(fn) ==
    CASE fn = "evaluate"             -> "ev_js"
      [] fn = "click"                -> "cl_exists"
      [] fn = "fire_on"              -> "fo_eval"
      [] fn = "fill"                 -> "fi_exists"
      [] fn = "set_field_value"      -> "sf_find"
      [] fn = "open"                 -> "op_load"
      [] fn = "wait_for_alert"       -> "wa_wait"
      [] fn = "wait_for_selector"    -> "ws_wait"
      [] fn = "wait_for_text"        -> "ws_wait"
      [] fn = "wait_for_page_loaded" -> "wp_wait"
      [] fn = "region_for_selector"  -> "rs_geo"
      [] fn = "capture"              -> "cp_region"
      [] fn = "wait_for"             -> "wf_poll"
      [] fn = "evaluate_js_file"     -> "ef_read"
      [] fn = "global_exists"        -> "ge_eval"

\* The frame of a call of fn on a session; a decorated function is entered
\* through the wrapper of can_load_page.
FrameOf(fn, self, sel, exp) ==
    [NoFrame EXCEPT !.fn = fn, !.self = self, !.sel = sel, !.exp = exp,
                    !.pc = IF fn \in DecoratedOps THEN "wrap" ELSE Entry(fn)]

\* What the top-level operation did, recorded when the stack empties.
Finish(status, err, v) ==
    LET b == stack[1] IN
    [op |-> b.fn, self |-> b.self, sel |-> b.sel, exp |-> b.exp,
     status |-> status, err |-> err, value |-> v,
     expected |-> sinceDrain[b.self],
     missing |-> (b.sel \notin Present(page[b.self])) /\ domStable,
     waited |-> Top.fn = "wait_for",
     elapsed |-> IF Top.fn = "wait_for" THEN now - Top.t0 ELSE 0,
     dur |-> now - b.called,
     finished |-> finishedSince[b.self],
     alerted |-> alertNew,
     pumps |-> IF Top.fn = "wait_for" THEN Top.pumps ELSE 0,
     cbs |-> IF Top.fn = "wait_for" THEN Top.cbs ELSE 0,
     load |-> openLoad[b.self],
     after |-> b.after,
     kept |-> b.kept]

\* the top frame moves on
Goto(f) ==
    /\ stack' = SetTop(f)
    /\ UNCHANGED <<ret, outcome, sinceDrain>>

\* the top frame calls a function
CallFn(caller, callee) ==
    /\ stack' = Push(caller, callee)
    /\ UNCHANGED <<ret, outcome, sinceDrain>>

\* the top frame returns v
ReturnTo(v) ==
    /\ stack' = Pop
    /\ ret' = IF Len(stack) = 1 THEN NoValue ELSE v
    /\ IF Len(stack) = 1
       THEN /\ outcome' = Finish("ok", "", v)
            /\ sinceDrain' = IF stack[1].fn \in DrainingOps
                             THEN [sinceDrain EXCEPT ![stack[1].self] = <<>>]
                             ELSE sinceDrain
       ELSE UNCHANGED <<outcome, sinceDrain>>

\* the top frame raises: no frame of Ghost catches, so the operation ends
RaiseErr(err) ==
    /\ stack' = <<>>
    /\ ret' = NoValue
    /\ outcome' = Finish("error", err, NoValue)
    /\ UNCHANGED sinceDrain

At(fn, self, pc) ==
    /\ ~Idle
    /\ Top.fn = fn /\ Top.self = self /\ Top.pc = pc

\* exit has deleted the session's manager, page and main_frame: reading
\* one of them raises AttributeError
Gone(self) == self \in exited

\* main_frame.findFirstElement(selector).isNull() is false
exists(self, selector) == selector \in Present(page[self])

\* the operations that reach wait_for
MayWait(op, exp) == op \in WaitOps \cup {"open"} \/ exp

\* The script calls an operation of a session.
CallWith(self, op, sel, exp, blur, todo, a) ==
    /\ Idle
    /\ self \in constructed
    /\ MayWait(op, exp) => now + WaitTimeout + MaxStep <= MaxClock
    /\ stack' = <<[FrameOf(op, self, sel, exp) EXCEPT
                      \* open reaches main_frame.load: without main_frame
                      \* the engine is not entered
                      !.pc = IF op = "open" /\ Gone(self)
                             THEN "op_gone" ELSE @,
                      !.blur = blur, !.todo = todo, !.called = now,
                      !.after = IF outcome.op \in WaitOps
                                THEN outcome.err ELSE "",
                      !.kept = IF outcome.op \in WaitOps
                                  /\ outcome.err = "timeout"
                               THEN http_resources[self] ELSE <<>>]>>
    /\ outcome' = NoOutcome
    /\ domStable' = TRUE
    /\ openLoad' = [openLoad EXCEPT ![self] = "none"]
    /\ IF op = "open"
       THEN /\ auth' = [auth EXCEPT ![self] = a]
            /\ auth_attempt' = [auth_attempt EXCEPT ![self] = <<0>>]
            /\ authHist' = [authHist EXCEPT ![self] = NoAuthHist]
       ELSE UNCHANGED <<auth, auth_attempt, authHist>>
    /\ UNCHANGED <<classVars, sessVars, now, wait_callback, ret, scopeVars,
                   dialogHist, resHist, alertHist, finishedSince, scopeHist,
                   drainHist, authenticator, hostVars>>

\* A call that leaves open's auth argument at its default, None.
Call(self, op, sel, exp, blur, todo) ==
    CallWith(self, op, sel, exp, blur, todo, <<>>)

stepRest == <<alert, confirm_expected, prompt_expected, loaded,
              http_resources, page, frame_url, now, wait_callback, scopes,
              nextExp, lastDialog, cbCalls, nextId, lastAlert, alertNew,
              domStable, finishedSince, openLoad, scopeHist, drainHist,
              auth, auth_attempt, authenticator, authHist, host, environ,
              xvfb, constructed, initHist, PYSIDE, app, exited>>

(***************************************************************************)
(* Ghost._release_last_resources: the list handed over, and the buffer it   *)
(* leaves.                                                                  *)
(***************************************************************************)
last_resources(self) == http_resources[self]
\* A variant that hands the list over and keeps it as the buffer.
release_last_resources_keeps(self) == http_resources

release_last_resources(self) == [http_resources EXCEPT ![self] = <<>>]

\* history of a drain: the records of last_resources are handed over
Released(self) ==
    [drainHist EXCEPT ![self] =
        [ids |-> @.ids \cup {last_resources(self)[i].id :
                                 i \in DOMAIN last_resources(self)},
         quiet |-> TRUE]]

(***************************************************************************)
(* can_load_page: the wrapper around a decorated function.                  *)
(***************************************************************************)
\* A variant that marks the page as not loaded whatever expect_loading is.
MarkNotLoaded_always(self, expect_loading) == [loaded EXCEPT ![self] = FALSE]

\* A variant that leaves the flag alone.
MarkNotLoaded_never(self, expect_loading) == loaded

\* if expect_loading: self.loaded = False
MarkNotLoaded(self, expect_loading) ==
    IF expect_loading THEN [loaded EXCEPT ![self] = FALSE] ELSE loaded

can_load_page(self) ==
    /\ ~Idle
    /\ Top.self = self
    /\ Top.fn \in DecoratedOps
    /\ Top.pc \in {"wrap", "wrap_ret", "wrap_out"}
    /\ CASE Top.pc = "wrap" ->
              \* expect_loading is taken from kwargs; func is called
              /\ loaded' = MarkNotLoaded(self, Top.exp)
              /\ finishedSince' = IF Top.exp
                                  THEN [finishedSince EXCEPT ![self] = FALSE]
                                  ELSE finishedSince
              \* evaluate reads main_frame before it enters the engine
              /\ IF Top.fn = "evaluate" /\ Gone(self)
                 THEN RaiseErr("attribute")
                 ELSE Goto([Top EXCEPT !.pc = Entry(Top.fn)])
              /\ UNCHANGED http_resources
         [] Top.pc = "wrap_ret" ->
              \* func returned rv: it is dropped when a load is expected
              /\ IF Top.exp
                 THEN CallFn([Top EXCEPT !.pc = "wrap_out"],
                             FrameOf("wait_for_page_loaded", self, "", FALSE))
                 ELSE ReturnTo(Top.rv)
              /\ UNCHANGED <<loaded, http_resources, finishedSince>>
         [] Top.pc = "wrap_out" ->
              \* return self.wait_for_page_loaded()
              /\ ReturnTo(ret)
              /\ UNCHANGED <<loaded, http_resources, finishedSince>>
    /\ UNCHANGED <<classVars, http_resources, page, frame_url, now,
                   wait_callback, scopeVars, dialogHist, nextId, alertHist,
                   domStable, openLoad, scopeHist, drainHist, authVars,
                   hostVars>>

(***************************************************************************)
(* Ghost.evaluate: the engine call returned; the buffer is drained.         *)
(***************************************************************************)
evaluate(self) ==
    /\ At("evaluate", self, "ev_js")
    /\ Goto([Top EXCEPT !.pc = "wrap_ret",
                        !.rv = [NoValue EXCEPT !.val = "js",
                                               !.res = last_resources(self)]])
    /\ http_resources' = release_last_resources(self)
    /\ drainHist' = Released(self)
    /\ UNCHANGED <<classVars, loaded, page, frame_url, now, wait_callback,
                   scopeVars, dialogHist, nextId, alertHist, loadHist,
                   openLoad, scopeHist, authVars, hostVars>>

(***************************************************************************)
(* Ghost.evaluate_js_file: the file is read (an IOError when it cannot be)  *)
(* and evaluated; what evaluate returns is dropped and None is returned.    *)
(***************************************************************************)
JsFiles == {"snippet.js", "missing.js"}

evaluate_js_file(self) ==
    /\ ~Idle
    /\ Top.fn = "evaluate_js_file" /\ Top.self = self
    /\ Top.pc \in {"ef_read", "ef_ret"}
    /\ IF Top.pc = "ef_read"
       THEN IF Top.sel = "missing.js"
            THEN RaiseErr("ioerror")
            ELSE CallFn([Top EXCEPT !.pc = "ef_ret"],
                        FrameOf("evaluate", self, "", FALSE))
       ELSE ReturnTo(NoValue)
    /\ UNCHANGED stepRest

(***************************************************************************)
(* Ghost.global_exists: the first item of what evaluate returns.            *)
(***************************************************************************)
global_exists(self) ==
    /\ ~Idle
    /\ Top.fn = "global_exists" /\ Top.self = self
    /\ Top.pc \in {"ge_eval", "ge_ret"}
    /\ IF Top.pc = "ge_eval"
       THEN CallFn([Top EXCEPT !.pc = "ge_ret"],
                   FrameOf("evaluate", self, "", FALSE))
       ELSE ReturnTo([NoValue EXCEPT !.val = ret.val])
    /\ UNCHANGED stepRest

(***************************************************************************)
(* Ghost.click                                                              *)
(***************************************************************************)
click(self) ==
    /\ ~Idle
    /\ Top.fn = "click" /\ Top.self = self
    /\ Top.pc \in {"cl_exists", "cl_ret"}
    /\ IF Top.pc = "cl_exists"
       THEN IF Gone(self)
            THEN RaiseErr("attribute")
            ELSE IF ~exists(self, Top.sel)
            THEN RaiseErr("notfound")     \* Can't find element to click
            ELSE CallFn([Top EXCEPT !.pc = "cl_ret"],
                        FrameOf("evaluate", self, Top.sel, FALSE))
       ELSE Goto([Top EXCEPT !.pc = "wrap_ret", !.rv = ret])
    /\ UNCHANGED stepRest

(***************************************************************************)
(* Ghost.fire_on: no test that the element exists; the script evaluated     *)
(* fails inside the engine when document.querySelector gives null.          *)
(***************************************************************************)
fire_on(self) ==
    /\ ~Idle
    /\ Top.fn = "fire_on" /\ Top.self = self
    /\ Top.pc \in {"fo_eval", "fo_ret"}
    /\ IF Top.pc = "fo_eval"
       THEN CallFn([Top EXCEPT !.pc = "fo_ret"],
                   FrameOf("evaluate", self, Top.sel, FALSE))
       ELSE Goto([Top EXCEPT !.pc = "wrap_ret", !.rv = ret])
    /\ UNCHANGED stepRest

(***************************************************************************)
(* Ghost.set_field_value                                                    *)
(***************************************************************************)
\* The list set_field_value returns: `ressources`, bound to [] at the top
\* and never assigned again (the file branch assigns `resources`).
ressources(clicked) == <<>>

set_field_value(self) ==
    /\ ~Idle
    /\ Top.fn = "set_field_value" /\ Top.self = self
    /\ Top.pc \in {"sf_find", "sf_set", "sf_clicked", "sf_blur", "sf_ret"}
    /\ CASE Top.pc = "sf_find" ->
              \* element = self.main_frame.findFirstElement(selector)
              IF Gone(self)
              THEN RaiseErr("attribute")
              ELSE IF ~exists(self, Top.sel)
              THEN RaiseErr("notfound")   \* can't find element for ...
              ELSE IF ElementKind(Top.sel) = "file"
              THEN CallFn([Top EXCEPT !.pc = "sf_clicked"],
                          FrameOf("click", self, Top.sel, FALSE))
              ELSE IF ElementKind(Top.sel) = "text"
              THEN \* _set_text_value: el.setFocus() enters the engine
                   Goto([Top EXCEPT !.pc = "sf_set"])
              ELSE RaiseErr("unsupported") \* unsuported field tag
         [] Top.pc = "sf_set" ->
              \* el.setFocus() and el.setAttribute('value', value) returned
              Goto([Top EXCEPT !.pc = "sf_blur"])
         [] Top.pc = "sf_clicked" ->
              \* res, resources = self.click(selector)
              Goto([Top EXCEPT !.pc = "sf_blur", !.val = ret.val,
                               !.acc = ret.res])
         [] Top.pc = "sf_blur" ->
              IF Top.blur
              THEN CallFn([Top EXCEPT !.pc = "sf_ret"],
                          FrameOf("fire_on", self, Top.sel, FALSE))
              ELSE Goto([Top EXCEPT !.pc = "sf_ret"])
         [] Top.pc = "sf_ret" ->
              Goto([Top EXCEPT !.pc = "wrap_ret",
                       !.rv = [NoValue EXCEPT !.val = Top.val,
                                              !.res = ressources(Top.acc)]])
    /\ UNCHANGED stepRest

(***************************************************************************)
(* Ghost.fill: todo holds the selectors of the fields still to set.         *)
(***************************************************************************)
fill(self) ==
    /\ ~Idle
    /\ Top.fn = "fill" /\ Top.self = self
    /\ Top.pc \in {"fi_exists", "fi_loop", "fi_extend"}
    /\ CASE Top.pc = "fi_exists" ->
              IF Gone(self)
              THEN RaiseErr("attribute")
              ELSE IF ~exists(self, Top.sel)
              THEN RaiseErr("notfound")   \* Can't find form
              ELSE Goto([Top EXCEPT !.pc = "fi_loop", !.acc = <<>>])
         [] Top.pc = "fi_loop" ->
              IF Top.todo = <<>>
              THEN Goto([Top EXCEPT !.pc = "wrap_ret",
                           !.rv = [NoValue EXCEPT !.val = "True",
                                                  !.res = Top.acc]])
              ELSE CallFn([Top EXCEPT !.pc = "fi_extend",
                                      !.todo = Tail(Top.todo)],
                          FrameOf("set_field_value", self, Head(Top.todo),
                                  FALSE))
         [] Top.pc = "fi_extend" ->
              \* resources.extend(res)
              Goto([Top EXCEPT !.pc = "fi_loop", !.acc = Top.acc \o ret.res])
    /\ UNCHANGED stepRest

(***************************************************************************)
(* Ghost.wait_for                                                           *)
(***************************************************************************)
\* A variant in which only the first session sees a recorded alert.
Condition_own(f) ==
    CASE f.cond = "loaded" -> loaded[f.self]
      [] f.cond = "alert"  -> alert # <<>> /\ f.self = 1
      [] f.cond = "exists" -> exists(f.self, f.sel)
      [] f.cond = "text"   -> f.sel \in Present(page[f.self])

\* condition(), for the four conditions Ghost waits on
Condition(f) ==
    CASE f.cond = "loaded" -> loaded[f.self]
      [] f.cond = "alert"  -> alert # <<>>
      [] f.cond = "exists" -> exists(f.self, f.sel)
      [] f.cond = "text"   -> f.sel \in Present(page[f.self])

\* A variant that gives up as soon as the timeout is reached.
Expired_early(started_at) == now >= started_at + WaitTimeout

\* time.time() > (started_at + self.wait_timeout)
Expired(started_at) == now > started_at + WaitTimeout

\* a call of wait_for: started_at = time.time()
WaitFrame(self, cond, sel) ==
    [FrameOf("wait_for", self, sel, FALSE) EXCEPT !.cond = cond, !.t0 = now]

\* A variant that never looks at the deadline.
WaitVerdict_noDeadline(f) ==
    IF Condition(f) THEN "return" ELSE "sleep"

\* A variant that looks at the deadline before it polls the condition.
WaitVerdict_deadlineFirst(f) ==
    IF Expired(f.t0) THEN "raise"
    ELSE IF Condition(f) THEN "return" ELSE "sleep"

\* while not condition(): if time.time() > ...: raise ...; time.sleep(0.01)
WaitVerdict(f) ==
    IF Condition(f) THEN "return"
    ELSE IF Expired(f.t0) THEN "raise" ELSE "sleep"

\* A variant that goes back to the condition without the wait callback.
AfterPump_skips(self) == "wf_poll"

\* if self.wait_callback is not None: self.wait_callback()
AfterPump(self) ==
    IF wait_callback[self] # <<>> THEN "wf_callback" ELSE "wf_poll"

wait_for(self) ==
    /\ ~Idle
    /\ Top.fn = "wait_for" /\ Top.self = self
    /\ Top.pc \in {"wf_poll", "wf_pump", "wf_callback"}
    /\ CASE Top.pc = "wf_poll" ->
              \* the conditions on the page read main_frame
              IF Gone(self) /\ Top.cond \in {"exists", "text"}
              THEN RaiseErr("attribute") /\ UNCHANGED now
              ELSE IF WaitVerdict(Top) = "return"
              THEN ReturnTo(NoValue) /\ UNCHANGED now
              ELSE IF WaitVerdict(Top) = "raise"
              THEN RaiseErr("timeout") /\ UNCHANGED now
              ELSE \* time.sleep(0.01), then processEvents is entered
                   \E d \in 1..MaxStep :
                      /\ now + d <= MaxClock
                      /\ now' = now + d
                      /\ Goto([Top EXCEPT !.pc = "wf_pump", !.pumps = @ + 1])
         [] Top.pc = "wf_pump" ->
              \* processEvents returned
              /\ Goto([Top EXCEPT !.pc = AfterPump(self),
                                  !.cbs = IF AfterPump(self) = "wf_callback"
                                          THEN @ + 1 ELSE @])
              /\ UNCHANGED now
         [] Top.pc = "wf_callback" ->
              \* self.wait_callback() returned
              /\ Goto([Top EXCEPT !.pc = "wf_poll"])
              /\ UNCHANGED now
    /\ UNCHANGED <<classVars, sessVars, wait_callback, scopeVars, dialogHist,
                   nextId, alertHist, loadHist, openLoad, scopeHist, drainHist,
                   authVars, hostVars>>

\* self.wait_callback() raises: nothing in Ghost catches, the wait ends
WaitCallbackRaises(self) ==
    /\ ~Idle
    /\ Top.fn = "wait_for" /\ Top.self = self /\ Top.pc = "wf_callback"
    /\ RaiseErr("callback")
    /\ UNCHANGED stepRest

(***************************************************************************)
(* Ghost.wait_for_page_loaded                                               *)
(***************************************************************************)
\* the resource whose url equals main_frame.url().toString(): the last one
\* that does
PageOf(self, resources) ==
    LET url == UrlToString(frame_url[self])
        hits == {i \in DOMAIN resources : resources[i].url = url}
    IN  IF hits = {} THEN <<>>
        ELSE <<resources[CHOOSE i \in hits : \A j \in hits : j <= i]>>

wait_for_page_loaded(self) ==
    /\ ~Idle
    /\ Top.fn = "wait_for_page_loaded" /\ Top.self = self
    /\ Top.pc \in {"wp_wait", "wp_drain"}
    /\ IF Top.pc = "wp_wait"
       THEN /\ CallFn([Top EXCEPT !.pc = "wp_drain"],
                      WaitFrame(self, "loaded", ""))
            /\ UNCHANGED <<http_resources, drainHist>>
       ELSE \* the buffer is drained before main_frame.url() is read
            /\ IF Gone(self)
               THEN RaiseErr("attribute")
               ELSE ReturnTo([NoValue EXCEPT
                           !.val = "page",
                           !.res = last_resources(self),
                           !.page = PageOf(self, last_resources(self))])
            /\ http_resources' = release_last_resources(self)
            /\ drainHist' = Released(self)
    /\ UNCHANGED <<classVars, loaded, page, frame_url, now, wait_callback,
                   scopeVars, dialogHist, nextId, alertHist, loadHist,
                   openLoad, scopeHist, authVars, hostVars>>

(***************************************************************************)
(* Ghost.open: the load request returned; the page is marked not loaded.    *)
(***************************************************************************)
open(self) ==
    /\ ~Idle
    /\ Top.fn = "open" /\ Top.self = self
    /\ Top.pc \in {"op_gone", "op_load", "op_ret"}
    /\ IF Top.pc = "op_gone"
       THEN /\ RaiseErr("attribute")
            /\ UNCHANGED <<loaded, finishedSince>>
       ELSE IF Top.pc = "op_load"
       THEN /\ loaded' = [loaded EXCEPT ![self] = FALSE]
            /\ finishedSince' = [finishedSince EXCEPT ![self] = FALSE]
            /\ CallFn([Top EXCEPT !.pc = "op_ret"],
                      FrameOf("wait_for_page_loaded", self, "", FALSE))
       ELSE /\ ReturnTo(ret)
            /\ UNCHANGED <<loaded, finishedSince>>
    /\ UNCHANGED <<classVars, http_resources, page, frame_url, now,
                   wait_callback, scopeVars, dialogHist, nextId, alertHist,
                   domStable, openLoad, scopeHist, drainHist, authVars,
                   hostVars>>

(***************************************************************************)
(* Ghost.wait_for_alert                                                     *)
(***************************************************************************)
\* A variant that leaves the message in the slot.
AlertTaken_kept == alert

\* Ghost._alert = None, once the message is read
AlertTaken == <<>>

wait_for_alert(self) ==
    /\ ~Idle
    /\ Top.fn = "wait_for_alert" /\ Top.self = self
    /\ Top.pc \in {"wa_wait", "wa_take"}
    /\ IF Top.pc = "wa_wait"
       THEN /\ CallFn([Top EXCEPT !.pc = "wa_take"],
                      WaitFrame(self, "alert", ""))
            /\ UNCHANGED <<alert, http_resources, alertNew, drainHist>>
       ELSE /\ ReturnTo([NoValue EXCEPT !.val = alert[1],
                                        !.res = last_resources(self)])
            /\ alert' = AlertTaken
            /\ alertNew' = FALSE
            /\ http_resources' = release_last_resources(self)
            /\ drainHist' = Released(self)
    /\ UNCHANGED <<confirm_expected, prompt_expected, loaded, page, frame_url,
                   now, wait_callback, scopeVars, dialogHist, nextId,
                   lastAlert, loadHist, openLoad, scopeHist, authVars, hostVars>>

(***************************************************************************)
(* Ghost.wait_for_selector and Ghost.wait_for_text                          *)
(***************************************************************************)
wait_for_selector(self) ==
    /\ ~Idle
    /\ Top.fn \in {"wait_for_selector", "wait_for_text"} /\ Top.self = self
    /\ Top.pc \in {"ws_wait", "ws_ret"}
    /\ IF Top.pc = "ws_wait"
       THEN /\ CallFn([Top EXCEPT !.pc = "ws_ret"],
                      WaitFrame(self, IF Top.fn = "wait_for_text"
                                      THEN "text" ELSE "exists", Top.sel))
            /\ UNCHANGED <<http_resources, drainHist>>
       ELSE /\ ReturnTo([NoValue EXCEPT !.val = "True",
                                        !.res = last_resources(self)])
            /\ http_resources' = release_last_resources(self)
            /\ drainHist' = Released(self)
    /\ UNCHANGED <<classVars, loaded, page, frame_url, now, wait_callback,
                   scopeVars, dialogHist, nextId, alertHist, loadHist,
                   openLoad, scopeHist, authVars, hostVars>>

(***************************************************************************)
(* Ghost.region_for_selector and Ghost.capture with a selector              *)
(***************************************************************************)
\* findFirstElement(selector).geometry() as (left, top, right, bottom).
\* A null element has the null rectangle QRect(): (0, 0, -1, -1).
Geometry(self, selector) ==
    IF exists(self, selector) THEN <<1, 1, 2, 2>> ELSE <<0, 0, -1, -1>>

region_for_selector(self) ==
    /\ At("region_for_selector", self, "rs_geo")
    \* the accessors of a QRect do not raise: the except clause is dead
    /\ IF Gone(self)
       THEN RaiseErr("attribute")
       ELSE ReturnTo([NoValue EXCEPT !.val = "region",
                                     !.region = Geometry(self, Top.sel)])
    /\ UNCHANGED stepRest

capture(self) ==
    /\ ~Idle
    /\ Top.fn = "capture" /\ Top.self = self
    /\ Top.pc \in {"cp_region", "cp_render"}
    /\ IF Top.pc = "cp_region"
       THEN CallFn([Top EXCEPT !.pc = "cp_render"],
                   FrameOf("region_for_selector", self, Top.sel, FALSE))
       ELSE \* region is a non-empty tuple: the frame is rendered and cropped
            ReturnTo([NoValue EXCEPT !.val = "image", !.region = ret.region])
    /\ UNCHANGED stepRest

(***************************************************************************)
(* The arguments the script may give to an operation.                       *)
(***************************************************************************)
\* values is a dict: its fields are distinct, and fill visits them in the
\* order the dict yields them.
FieldLists ==
    {q \in UNION {[1..n -> {"#field", "#file"}] : n \in 0..MaxFields} :
        \A i, j \in DOMAIN q : q[i] = q[j] => i = j}

SelsOf(op) ==
    CASE op \in {"evaluate", "open", "wait_for_alert",
                 "wait_for_page_loaded",
                 "global_exists"}          -> {""}
      [] op = "evaluate_js_file"           -> JsFiles
      [] op = "wait_for_text"              -> Texts
      [] op = "fill"                       -> {"#go", "#missing"}
      [] OTHER                             -> Selectors

CallOp(self, op) ==
    \E sel \in SelsOf(op) :
    \E exp \in (IF op \in DecoratedOps THEN BOOLEAN ELSE {FALSE}) :
    \E blur \in (IF op = "set_field_value" THEN BOOLEAN ELSE {TRUE}) :
    \E todo \in (IF op = "fill" THEN FieldLists ELSE {<<>>}) :
        Call(self, op, sel, exp, blur, todo)

\* one step of the script inside an operation of a session
Step(self) ==
    \/ can_load_page(self)
    \/ evaluate(self)
    \/ evaluate_js_file(self)
    \/ global_exists(self)
    \/ click(self)
    \/ fire_on(self)
    \/ set_field_value(self)
    \/ fill(self)
    \/ wait_for(self)
    \/ WaitCallbackRaises(self)
    \/ wait_for_page_loaded(self)
    \/ open(self)
    \/ wait_for_alert(self)
    \/ wait_for_selector(self)
    \/ region_for_selector(self)
    \/ capture(self)

\* a callback of the engine for a session's page or network manager
EngineEvent(self) ==
    \/ PageLoaded(self)
    \/ PageLoadStarted(self)
    \/ \E u \in Urls, st \in Statuses, h \in RawHeaders :
          RequestEnded(self, u, st, h)
    \/ \E u \in Urls, st \in Statuses, h \in RawHeaders :
          UnsupportedContent(self, u, st, h)
    \/ \E p \in Pages : DocumentChanged(self, p)
    \/ \E u \in Urls : UrlChanged(self, u)

Dialog ==
    \/ \E m \in Messages : JavaScriptAlert(m)
    \/ JavaScriptConfirm
    \/ \E b \in BOOLEAN : ConfirmCallbackReturns(b)
    \/ JavaScriptPrompt
    \/ \E v \in PromptValues : PromptCallbackReturns(v)
    \/ CallbackRaises

Scope ==
    \/ \E b \in BOOLEAN, c \in Callbacks : ConfirmEnter(b, c)
    \/ \E v \in PromptValues, c \in Callbacks : PromptEnter(v, c)
    \/ ConfirmExit
    \/ PromptExit

(***************************************************************************)
(* The whole program, one session.                                          *)
(***************************************************************************)
Next ==
    \/ \E op \in Ops : CallOp(1, op)
    \/ Step(1)
    \/ EngineEvent(1)
    \/ Dialog
    \/ Scope

Spec == Init /\ [][Next]_vars

(***************************************************************************)
(* The page-affecting operations of one session with the load callbacks;    *)
(* the session may be exited between operations.  No network exchange       *)
(* completes and no dialog is raised.                                       *)
(***************************************************************************)
NextLoad ==
    \/ \E op \in DecoratedOps \cup {"open", "region_for_selector", "capture"} :
          CallOp(1, op)
    \/ can_load_page(1)
    \/ evaluate(1)
    \/ click(1)
    \/ fire_on(1)
    \/ set_field_value(1)
    \/ fill(1)
    \/ wait_for(1)
    \/ wait_for_page_loaded(1)
    \/ open(1)
    \/ region_for_selector(1)
    \/ capture(1)
    \/ PageLoaded(1)
    \/ PageLoadStarted(1)
    \/ \E p \in Pages : DocumentChanged(1, p)
    \/ Exit(1)

SpecLoad == Init /\ [][NextLoad]_vars

(***************************************************************************)
(* The operations wrapped by can_load_page, on a session constructed with   *)
(* or without a wait callback, with the load callbacks; the wait callback   *)
(* may raise, and the session may be exited between operations.             *)
(***************************************************************************)
NextDecorated ==
    \/ \E op \in DecoratedOps : CallOp(1, op)
    \/ can_load_page(1)
    \/ evaluate(1)
    \/ click(1)
    \/ fire_on(1)
    \/ set_field_value(1)
    \/ fill(1)
    \/ wait_for(1)
    \/ WaitCallbackRaises(1)
    \/ wait_for_page_loaded(1)
    \/ PageLoaded(1)
    \/ PageLoadStarted(1)
    \/ \E p \in Pages : DocumentChanged(1, p)
    \/ Exit(1)

SpecDecorated == InitPoll /\ [][NextDecorated]_vars

(***************************************************************************)
(* The resource buffer of one session: the two network callbacks and the    *)
(* operations that drain.                                                   *)
(***************************************************************************)
NextRes ==
    \/ \E exp \in BOOLEAN : Call(1, "evaluate", "", exp, TRUE, <<>>)
    \/ \E sel \in {"#field", "#file"}, blur \in BOOLEAN :
          Call(1, "set_field_value", sel, FALSE, blur, <<>>)
    \/ \E op \in DroppingOps : CallOp(1, op)
    \/ can_load_page(1)
    \/ evaluate(1)
    \/ evaluate_js_file(1)
    \/ global_exists(1)
    \/ click(1)
    \/ fire_on(1)
    \/ set_field_value(1)
    \/ wait_for(1)
    \/ wait_for_page_loaded(1)
    \/ PageLoaded(1)
    \/ \E st \in Statuses, h \in RawHeaders : RequestEnded(1, "u1", st, h)
    \/ \E st \in Statuses, h \in RawHeaders :
          UnsupportedContent(1, "u1", st, h)
    \/ \E p \in Pages : DocumentChanged(1, p)

SpecRes == Init /\ [][NextRes]_vars

(***************************************************************************)
(* The network callbacks of one session when every reply carries an HTTP    *)
(* status code: the replies differ in their raw headers only.               *)
(***************************************************************************)
NextReply ==
    \/ \E exp \in BOOLEAN : Call(1, "evaluate", "", exp, TRUE, <<>>)
    \/ Call(1, "set_field_value", "#field", FALSE, TRUE, <<>>)
    \/ can_load_page(1)
    \/ evaluate(1)
    \/ fire_on(1)
    \/ set_field_value(1)
    \/ wait_for(1)
    \/ wait_for_page_loaded(1)
    \/ PageLoaded(1)
    \/ \E h \in RawHeaders : RequestEnded(1, "u1", 200, h)
    \/ \E h \in RawHeaders : UnsupportedContent(1, "u1", 200, h)
    \/ \E p \in Pages : DocumentChanged(1, p)

SpecReply == Init /\ [][NextReply]_vars

(***************************************************************************)
(* The dialog hooks and the scopes, with evaluate as the operation during   *)
(* which the page raises dialogs.                                           *)
(***************************************************************************)
NextDialog ==
    \/ \E exp \in {FALSE} : Call(1, "evaluate", "", exp, TRUE, <<>>)
    \/ can_load_page(1)
    \/ evaluate(1)
    \/ Dialog
    \/ Scope

SpecDialog == Init /\ [][NextDialog]_vars

(***************************************************************************)
(* The waits of one session, with the callbacks their conditions read.      *)
(***************************************************************************)
NextWait ==
    \/ \E op \in WaitOps : CallOp(1, op)
    \/ Call(1, "evaluate", "", FALSE, TRUE, <<>>)
    \/ can_load_page(1)
    \/ evaluate(1)
    \/ wait_for(1)
    \/ wait_for_page_loaded(1)
    \/ wait_for_alert(1)
    \/ wait_for_selector(1)
    \/ PageLoaded(1)
    \/ PageLoadStarted(1)
    \/ RequestEnded(1, "u1", 200, "ascii")
    \/ \E p \in Pages : DocumentChanged(1, p)
    \/ \E m \in Messages : JavaScriptAlert(m)

SpecWait == Init /\ [][NextWait]_vars

(***************************************************************************)
(* Page loads of one session: open and wait_for_page_loaded with the load   *)
(* callbacks, the exchanges of the load and the main frame's URL.           *)
(***************************************************************************)
NextOpen ==
    \/ \E op \in {"open", "wait_for_page_loaded"} : CallOp(1, op)
    \/ wait_for(1)
    \/ wait_for_page_loaded(1)
    \/ open(1)
    \/ PageLoaded(1)
    \/ PageLoadStarted(1)
    \/ \E u \in Urls, st \in Statuses : RequestEnded(1, u, st, "ascii")
    \/ \E u \in Urls : UrlChanged(1, u)

SpecOpen == Init /\ [][NextOpen]_vars

(***************************************************************************)
(* Two sessions in one process.  The script a session evaluates raises      *)
(* dialogs on that session's page; each page alerts its own message.        *)
(***************************************************************************)
PageMessage(self) == IF self = 1 THEN "hi" ELSE "bye"

\* the script evaluated in the session's main frame calls alert()
PageAlert(self) ==
    /\ At("evaluate", self, "ev_js")
    /\ JavaScriptAlert(PageMessage(self))

\* the script evaluated in the session's main frame calls confirm()
PageConfirm(self) ==
    /\ At("evaluate", self, "ev_js")
    /\ JavaScriptConfirm

\* the script evaluated in the session's main frame calls prompt()
PagePrompt(self) ==
    /\ At("evaluate", self, "ev_js")
    /\ JavaScriptPrompt

NextShared ==
    \/ \E s \in Sessions : Call(s, "evaluate", "", FALSE, TRUE, <<>>)
    \/ \E s \in Sessions : Call(s, "wait_for_alert", "", FALSE, TRUE, <<>>)
    \/ \E s \in Sessions : can_load_page(s)
    \/ \E s \in Sessions : evaluate(s)
    \/ \E s \in Sessions : wait_for(s)
    \/ \E s \in Sessions : wait_for_alert(s)
    \/ \E s \in Sessions : PageAlert(s)
    \/ \E s \in Sessions : PageConfirm(s)
    \/ \E s \in Sessions : PagePrompt(s)
    \/ \E b \in BOOLEAN : ConfirmEnter(b, <<>>)
    \/ PromptEnter("v", <<>>)
    \/ ConfirmExit
    \/ PromptExit

SpecShared == Init /\ [][NextShared]_vars

(***************************************************************************)
(* Two sessions in one process, each with its page's load callbacks and its *)
(* network manager's exchanges.  processEvents serves every page of the     *)
(* application, so a callback of either session may run inside an engine    *)
(* call of the other.                                                       *)
(***************************************************************************)
NextPair ==
    \/ \E s \in Sessions : Call(s, "evaluate", "", FALSE, TRUE, <<>>)
    \/ \E s \in Sessions :
          Call(s, "wait_for_page_loaded", "", FALSE, TRUE, <<>>)
    \/ \E s \in Sessions : can_load_page(s)
    \/ \E s \in Sessions : evaluate(s)
    \/ \E s \in Sessions : wait_for(s)
    \/ \E s \in Sessions : wait_for_page_loaded(s)
    \/ \E s \in Sessions : PageLoaded(s)
    \/ \E s \in Sessions : PageLoadStarted(s)
    \/ \E s \in Sessions : RequestEnded(s, "u1", 200, "ascii")

SpecPair == Init /\ [][NextPair]_vars

(***************************************************************************)
(* Waits that fail, and the draining operations that follow them.           *)
(***************************************************************************)
NextRecover ==
    \/ \E op \in WaitOps : CallOp(1, op)
    \/ \E exp \in BOOLEAN : Call(1, "evaluate", "", exp, TRUE, <<>>)
    \/ Call(1, "set_field_value", "#field", FALSE, TRUE, <<>>)
    \/ can_load_page(1)
    \/ evaluate(1)
    \/ fire_on(1)
    \/ set_field_value(1)
    \/ \E p \in Pages : DocumentChanged(1, p)
    \/ wait_for(1)
    \/ wait_for_page_loaded(1)
    \/ wait_for_alert(1)
    \/ wait_for_selector(1)
    \/ PageLoaded(1)
    \/ PageLoadStarted(1)
    \/ \E st \in Statuses, h \in RawHeaders : RequestEnded(1, "u1", st, h)

SpecRecover == Init /\ [][NextRecover]_vars

(***************************************************************************)
(* A session constructed with or without a wait callback,                   *)
(* Ghost(wait_callback=...), and its waits.                                 *)
(***************************************************************************)
NextPoll ==
    \/ \E op \in WaitOps : CallOp(1, op)
    \/ Call(1, "evaluate", "", FALSE, TRUE, <<>>)
    \/ can_load_page(1)
    \/ evaluate(1)
    \/ wait_for(1)
    \/ WaitCallbackRaises(1)
    \/ wait_for_page_loaded(1)
    \/ wait_for_alert(1)
    \/ wait_for_selector(1)
    \/ PageLoaded(1)
    \/ PageLoadStarted(1)
    \/ \E p \in Pages : DocumentChanged(1, p)
    \/ \E m \in Messages : JavaScriptAlert(m)

SpecPoll == InitPoll /\ [][NextPoll]_vars

(***************************************************************************)
(* The waits of a session under the scheduling of the script: the clock     *)
(* advances with every sleep, and processEvents, the callbacks it runs and  *)
(* the wait callback return, so a wait_for that can take a step takes one.  *)
(***************************************************************************)
NextLive ==
    \/ \E op \in WaitOps : CallOp(1, op)
    \/ wait_for(1)
    \/ WaitCallbackRaises(1)
    \/ wait_for_page_loaded(1)
    \/ wait_for_alert(1)
    \/ wait_for_selector(1)
    \/ PageLoaded(1)
    \/ PageLoadStarted(1)
    \/ \E p \in Pages : DocumentChanged(1, p)
    \/ \E m \in Messages : JavaScriptAlert(m)

SpecLive == InitPoll /\ [][NextLive]_vars /\ WF_vars(wait_for(1))

(***************************************************************************)
(* Opens of one session with and without credentials, and the               *)
(* authentication challenges the engine delivers while it runs.             *)
(***************************************************************************)
NextAuth ==
    \/ \E u \in SelsOf("open"), a \in AuthInputs :
          CallWith(1, "open", u, FALSE, TRUE, <<>>, a)
    \/ CallOp(1, "wait_for_page_loaded")
    \/ open(1)
    \/ wait_for_page_loaded(1)
    \/ wait_for(1)
    \/ PageLoaded(1)
    \/ PageLoadStarted(1)
    \/ \E mix \in Mixes : Authenticate(1, mix)

SpecAuth == Init /\ [][NextAuth]_vars

(***************************************************************************)
(* A process on any host: it constructs sessions, and the sessions          *)
(* constructed evaluate scripts while exchanges complete; sessions exit,    *)
(* are collected, and are called again after their exit.                    *)
(***************************************************************************)
NextHost ==
    \/ \E s \in Sessions, cb \in {<<>>} : Construct(s, cb)
    \/ \E s \in Sessions : Exit(s)
    \/ \E s \in Sessions : Del(s)
    \/ \E s \in Sessions : Call(s, "evaluate", "", FALSE, TRUE, <<>>)
    \/ \E s \in exited :
          \E op \in {"open", "wait_for_page_loaded"} : CallOp(s, op)
    \/ \E s \in constructed : can_load_page(s)
    \/ \E s \in constructed : evaluate(s)
    \/ \E s \in exited : open(s)
    \/ \E s \in exited : wait_for(s)
    \/ \E s \in exited : wait_for_page_loaded(s)
    \/ \E s \in constructed : RequestEnded(s, "u1", 200, "ascii")

SpecHost == InitHost /\ [][NextHost]_vars

(***************************************************************************)
(*                              The claims                                  *)
(***************************************************************************)
Last(q) == q[Len(q)]
Front(q) == SubSeq(q, 1, Len(q) - 1)
Done == Idle /\ outcome.status # "none"
Returned(op) == Done /\ outcome.op = op /\ outcome.status = "ok"

\* C1: the resource list an operation returns to its caller is exactly the
\* records appended to the buffer since the caller last received a resource
\* list, in arrival order.  (Stated as claimed; the code drops records.)
C1_ReturnedSinceLastDrain ==
    (Done /\ outcome.status = "ok" /\ outcome.op \in DrainingOps)
        => outcome.value.res = outcome.expected

\* C10: every completed network exchange, reported by either callback,
\* results in exactly one record appended to the buffer.  (Stated as
\* claimed; a reply that carries a status code and a raw header that does
\* not decode raises inside the slot and leaves no record.)
C10_EveryExchangeRecorded ==
    [][nextId' = nextId + 1
          => Len(http_resources'[1]) = Len(http_resources[1]) + 1]_vars

\* C2: the callback of an expectation is invoked at most once, and the
\* dialog that consumes the expectation leaves the slot empty (so that a
\* second dialog fails as unhandled).  (Stated as claimed; the prompt hook
\* still holds the expectation while its callback runs.)
C2_CallbackOncePerExpectation ==
    [][/\ \A i \in 1..MaxScopes : cbCalls'[i] <= 1
       /\ (lastDialog' # lastDialog /\ lastDialog'.kind = "confirm"
              /\ lastDialog'.status \in {"calling", "answered"})
            => confirm_expected' = <<>>
       /\ (lastDialog' # lastDialog /\ lastDialog'.kind = "prompt"
              /\ lastDialog'.status \in {"calling", "answered"})
            => prompt_expected' = <<>>
      ]_vars

\* C6 as claimed: each of the three hooks, its slot unset, fails and leaves
\* every slot as it was.
C6_EachHookFailsWhenUnset ==
    [][/\ (JavaScriptConfirm /\ confirm_expected = <<>>)
            => (lastDialog'.status = "unhandled" /\ UNCHANGED classVars)
       /\ (JavaScriptPrompt /\ prompt_expected = <<>>)
            => (lastDialog'.status = "unhandled" /\ UNCHANGED classVars)
       /\ ((\E m \in Messages : JavaScriptAlert(m)) /\ alert = <<>>)
            => (lastDialog'.status = "unhandled" /\ UNCHANGED classVars)
      ]_vars

\* C6 (amended): the confirm hook and the prompt hook, their slot unset,
\* fail with an error and leave every slot as it was; the alert hook
\* consults no expectation and never fails: it records the message in the
\* alert slot and leaves the other two slots as they were.
C6_ConfirmPromptFailWhenUnset ==
    [][/\ (JavaScriptConfirm /\ confirm_expected = <<>>)
            => (lastDialog'.kind = "confirm"
                  /\ lastDialog'.status = "unhandled"
                  /\ UNCHANGED <<classVars, stack>>)
       /\ (JavaScriptPrompt /\ prompt_expected = <<>>)
            => (lastDialog'.kind = "prompt"
                  /\ lastDialog'.status = "unhandled"
                  /\ UNCHANGED <<classVars, stack>>)
       /\ \A m \in Messages : JavaScriptAlert(m)
            => (lastDialog'.status = "recorded" /\ alert' = <<m>>
                  /\ UNCHANGED <<confirm_expected, prompt_expected>>)
      ]_vars

\* C6 witness: a prompt was raised with no expectation and failed, while a
\* confirm expectation was pending and an alert had been recorded.
C6_Witness ==
    /\ lastDialog.kind = "prompt" /\ lastDialog.status = "unhandled"
    /\ prompt_expected = <<>>
    /\ confirm_expected # <<>>
    /\ alert # <<>>

\* C7: each slot holds at most one expectation; a slot becomes non-empty
\* only by entering a scope of its kind; it becomes empty only by the exit
\* of a scope of its kind or by a dialog of its kind consuming it; and a
\* scope's exit leaves its kind's slot empty and the other slot unchanged.
C7_OnePendingExpectationPerKind ==
    [][/\ Len(confirm_expected') <= 1 /\ Len(prompt_expected') <= 1
       /\ (confirm_expected' # confirm_expected /\ confirm_expected' # <<>>)
            => (Idle /\ Len(scopes') = Len(scopes) + 1
                  /\ Last(scopes').kind = "confirm"
                  /\ confirm_expected'[1].id = Last(scopes').id)
       /\ (prompt_expected' # prompt_expected /\ prompt_expected' # <<>>)
            => (Idle /\ Len(scopes') = Len(scopes) + 1
                  /\ Last(scopes').kind = "prompt"
                  /\ prompt_expected'[1].id = Last(scopes').id)
       /\ (confirm_expected # <<>> /\ confirm_expected' = <<>>)
            => \/ Idle /\ scopes' = Front(scopes)
                       /\ Last(scopes).kind = "confirm"
               \/ InEngine /\ lastDialog'.kind = "confirm"
                           /\ lastDialog'.eid = confirm_expected[1].id
       /\ (prompt_expected # <<>> /\ prompt_expected' = <<>>)
            => \/ Idle /\ scopes' = Front(scopes)
                       /\ Last(scopes).kind = "prompt"
               \/ ~Idle /\ lastDialog'.kind = "prompt"
                        /\ lastDialog'.status = "answered"
       /\ (Len(scopes') < Len(scopes))
            => IF Last(scopes).kind = "confirm"
               THEN confirm_expected' = <<>> /\ UNCHANGED prompt_expected
               ELSE prompt_expected' = <<>> /\ UNCHANGED confirm_expected
      ]_vars

\* C7 witness: a confirm scope was entered inside a prompt scope and has
\* exited with no dialog raised; the prompt expectation is still pending.
C7_Witness ==
    /\ Len(scopes) = 1 /\ scopes[1].kind = "prompt"
    /\ nextExp = 2
    /\ lastDialog.kind = "none"
    /\ confirm_expected = <<>>
    /\ prompt_expected # <<>>

\* C3 as claimed: a wait that fails has lasted exactly wait_timeout.
C3_TimeoutAfterExactlyTheTimeout ==
    (Done /\ outcome.err = "timeout") => outcome.elapsed = WaitTimeout

\* C3 (amended): a wait fails only at a poll at which strictly more than
\* wait_timeout has elapsed since the wait began, never before or at the
\* timeout; it fails at the first such poll, so no later than one
\* iteration (sleep, event pump, wait callback) after the timeout.
C3_TimeoutOnlyAfterTheTimeout ==
    (Done /\ outcome.err = "timeout")
        => /\ outcome.waited
           /\ outcome.elapsed > WaitTimeout
           /\ outcome.elapsed <= WaitTimeout + MaxStep

\* C3 witness: a wait for a selector failed one iteration after the timeout.
C3_Witness ==
    /\ Done /\ outcome.err = "timeout"
    /\ outcome.op = "wait_for_selector"
    /\ outcome.elapsed = WaitTimeout + MaxStep

\* C4: wait_for_alert returns only when an alert was raised since the last
\* alert was taken; it returns the message of the most recent alert with
\* the drained resources, and leaves the alert slot empty; with no such
\* alert it fails by timeout.
C4_WaitForAlertTakesLastAlert ==
    /\ Returned("wait_for_alert")
         => /\ outcome.alerted
            /\ lastAlert # <<>>
            /\ outcome.value.val = lastAlert[1]
            /\ outcome.value.res = outcome.expected
            /\ alert = <<>>
            /\ ~alertNew
    /\ (Done /\ outcome.op = "wait_for_alert" /\ outcome.status = "error")
         => /\ outcome.err = "timeout"
            /\ ~outcome.alerted
            /\ alert = <<>>

\* C4 witness: an alert "hi" was raised during an evaluation that drew a
\* resource, and the wait_for_alert that followed returned "hi" and the
\* resources it drained.
C4_Witness ==
    /\ Returned("wait_for_alert")
    /\ outcome.value.val = "hi"
    /\ Len(outcome.value.res) = 1
    /\ outcome.dur > 0

\* C5: called with a selector that matches no element, an element-dependent
\* operation fails with a not-found error.  (Stated as claimed; fire_on,
\* region_for_selector and capture do not test for the element.)
C5_MissingElementFails ==
    (Done /\ outcome.op \in ElementOps /\ outcome.missing)
        => (outcome.status = "error" /\ outcome.err = "notfound")

\* the step of the wrapper that enters the decorated function
WrapperEnters == ~Idle /\ Top.pc = "wrap" /\ can_load_page(1)

\* the script is inside a decorated operation called without expect_loading
Unexpecting ==
    ~Idle /\ stack[1].fn \in DecoratedOps /\ ~stack[1].exp

\* the parts of C8 that the code meets: with expect_loading the flag is
\* false when the action starts, and the operation returns only after
\* load-finished has run since then, with the flag true and the result of
\* wait_for_page_loaded; without it no step of the operation changes the
\* flag (only a load callback the engine runs meanwhile does) and the
\* operation returns the action's result without having slept.
C8_Common ==
    /\ (WrapperEnters /\ Top.exp) => ~loaded'[1]
    /\ (Unexpecting /\ loaded' # loaded)
         => (PageLoaded(1) \/ PageLoadStarted(1))
    /\ (Done /\ outcome.op \in DecoratedOps /\ outcome.exp
          /\ outcome.status = "ok")'
         => (outcome.finished /\ loaded[1] /\ outcome.value.val = "page")'
    /\ (Done /\ outcome.op \in DecoratedOps /\ ~outcome.exp
          /\ outcome.status = "ok")'
         => (outcome.value.val # "page" /\ outcome.dur = 0)'
    /\ (Done /\ outcome.op \in DecoratedOps /\ ~outcome.exp
          /\ outcome.status = "error")'
         => (outcome.err # "timeout" /\ outcome.dur = 0)'

\* C8 as claimed: with expect_loading the operation returns after the load
\* has finished or fails by timeout.
C8_LoadExpectedReturnsOrTimesOut ==
    [][/\ C8_Common
       /\ (Done /\ outcome.op \in DecoratedOps /\ outcome.exp
             /\ outcome.status = "error")'
            => (outcome.err = "timeout")'
      ]_vars

\* C8 (amended): as claimed, except that with expect_loading the operation
\* may also fail with the action's own error (element not found,
\* unsupported field tag, a session used after exit), in which case it has
\* not waited and the flag is left false unless load-finished has run
\* meanwhile, or with the error the session's wait callback raises during
\* the wait.
C8_LoadExpectedReturnsOrFails ==
    [][/\ C8_Common
       /\ (Done /\ outcome.op \in DecoratedOps /\ outcome.exp
             /\ outcome.status = "error")'
            => (\/ outcome.err = "timeout" /\ outcome.waited
                \/ outcome.err = "callback" /\ outcome.waited
                \/ /\ outcome.err \in {"notfound", "unsupported",
                                      "attribute"}
                   /\ ~outcome.waited /\ outcome.dur = 0
                   /\ (~loaded[1] \/ outcome.finished))'
      ]_vars

\* C8 witness: a click with expect_loading returned the page-loaded result
\* after waiting for load-finished.
C8_Witness ==
    /\ Returned("click") /\ outcome.exp
    /\ outcome.value.val = "page"
    /\ outcome.dur > 0
    /\ outcome.finished

\* C9 as claimed: only the two engine callbacks change the load flag.
C9_OnlyCallbacksChangeLoaded ==
    [][loaded' # loaded => (PageLoaded(1) \/ PageLoadStarted(1))]_vars

\* C9 (amended): the load flag is changed only by the two
\* engine callbacks (load-started sets it to false, load-finished to true),
\* by open, which sets it to false once the load request has returned, and
\* by the can_load_page wrapper, which sets it to false when expect_loading
\* is true; no other operation changes it.
C9_WhoChangesLoaded ==
    [][/\ loaded' # loaded
            => \/ PageLoaded(1)
               \/ PageLoadStarted(1)
               \/ At("open", 1, "op_load") /\ open(1)
               \/ WrapperEnters /\ Top.exp
       /\ PageLoaded(1) => loaded'[1]
       /\ PageLoadStarted(1) => ~loaded'[1]
       /\ (At("open", 1, "op_load") /\ open(1)) => ~loaded'[1]
       /\ (WrapperEnters /\ Top.exp) => ~loaded'[1]
      ]_vars

\* C9 witness: open has set the flag to false after a load request during
\* which the engine showed the new document.
C9_Witness ==
    /\ ~Idle /\ stack[1].fn = "open" /\ stack[1].pc = "op_ret"
    /\ ~loaded[1]
    /\ ~finishedSince[1]
    /\ page[1] = "form"

\* C11: a confirm or prompt dialog raised with a pending expectation is
\* answered with the value the callback computed when the expectation has a
\* callback and with the expectation's fixed value otherwise; confirm
\* answers that boolean, prompt accepts the dialog and fills in that value;
\* the hook leaves the slot of the other kind and the alert slot unchanged.
C11_AnswerFromCallbackOrValue ==
    [][/\ (JavaScriptConfirm /\ confirm_expected # <<>>)
            => /\ UNCHANGED <<alert, prompt_expected>>
               /\ IF confirm_expected[1].callback = <<>>
                  THEN /\ lastDialog'.kind = "confirm"
                       /\ lastDialog'.status = "answered"
                       /\ lastDialog'.bval = confirm_expected[1].value
                       /\ UNCHANGED stack
                  ELSE /\ lastDialog'.status = "calling"
                       /\ Last(stack').pc = "callback"
       /\ \A b \in BOOLEAN : ConfirmCallbackReturns(b)
            => /\ lastDialog'.kind = "confirm"
               /\ lastDialog'.status = "answered"
               /\ lastDialog'.bval = b
               /\ UNCHANGED <<alert, prompt_expected>>
       /\ (JavaScriptPrompt /\ prompt_expected # <<>>)
            => /\ UNCHANGED <<alert, confirm_expected>>
               /\ IF prompt_expected[1].callback = <<>>
                  THEN /\ lastDialog'.kind = "prompt"
                       /\ lastDialog'.status = "answered"
                       /\ lastDialog'.bval
                       /\ lastDialog'.sval = prompt_expected[1].value
                       /\ UNCHANGED stack
                  ELSE /\ lastDialog'.status = "calling"
                       /\ Last(stack').pc = "callback"
       /\ \A v \in PromptValues : PromptCallbackReturns(v)
            => /\ lastDialog'.kind = "prompt"
               /\ lastDialog'.status = "answered"
               /\ lastDialog'.bval
               /\ lastDialog'.sval = v
               /\ UNCHANGED <<alert, confirm_expected>>
      ]_vars

\* C11 witness: with a confirm expectation pending and an alert recorded, a
\* prompt whose expectation had a callback was accepted with the value "v"
\* the callback computed.
C11_Witness ==
    /\ lastDialog.kind = "prompt" /\ lastDialog.status = "answered"
    /\ lastDialog.via = "callback" /\ lastDialog.sval = "v"
    /\ confirm_expected # <<>>
    /\ alert # <<>>

\* the innermost frame is a wait_for of session 1 at the given label
AtWait(pc) == ~Idle /\ Top.fn = "wait_for" /\ Top.self = 1 /\ Top.pc = pc

\* C12: an iteration of wait_for that finds the condition false and the
\* deadline not passed pumps the event loop once and then, when a wait
\* callback is configured, invokes it once before the condition is polled
\* again; so with a wait callback configured a wait has invoked the callback
\* as many times as it has pumped, and without one it invokes nothing.
C12_CallbackOncePerPump ==
    [][/\ (AtWait("wf_poll") /\ wait_for(1) /\ ~Condition(Top)
              /\ ~Expired(Top.t0))
            => /\ Len(stack') = Len(stack)
               /\ Last(stack').pc = "wf_pump"
               /\ Last(stack').pumps = Top.pumps + 1
               /\ Last(stack').cbs = Top.cbs
       /\ (AtWait("wf_pump") /\ wait_for(1))
            => /\ Len(stack') = Len(stack)
               /\ Last(stack').pumps = Top.pumps
               /\ IF wait_callback[1] # <<>>
                  THEN /\ Last(stack').pc = "wf_callback"
                       /\ Last(stack').cbs = Top.cbs + 1
                  ELSE /\ Last(stack').pc = "wf_poll"
                       /\ Last(stack').cbs = Top.cbs
       /\ (AtWait("wf_callback") /\ wait_for(1))
            => /\ Len(stack') = Len(stack)
               /\ Last(stack').pc = "wf_poll"
               /\ Last(stack').pumps = Top.pumps
               /\ Last(stack').cbs = Top.cbs
       /\ (Idle' /\ outcome'.waited)
            => IF wait_callback[1] # <<>>
               THEN outcome'.cbs = outcome'.pumps
               ELSE outcome'.cbs = 0
      ]_vars

\* C12 witness: a wait with a wait callback configured ended by timeout
\* after two pumps and two invocations of the callback.
C12_Witness ==
    /\ Done /\ outcome.err = "timeout"
    /\ wait_callback[1] # <<>>
    /\ outcome.pumps = 2 /\ outcome.cbs = 2

\* C13: open and wait_for_page_loaded return (page, resources) where
\* resources is the whole buffer as drained and page is the record of
\* resources whose URL is the main frame's current URL, the last one when
\* several match, and no value when none matches.
C13_PageIsLastMatchingResource ==
    (Done /\ outcome.status = "ok"
          /\ outcome.op \in {"open", "wait_for_page_loaded"})
        => LET r == outcome.value.res
               pg == outcome.value.page
           IN  /\ r = outcome.expected
               /\ http_resources[1] = <<>>
               /\ Len(pg) <= 1
               /\ pg = <<>>
                    <=> \A i \in DOMAIN r : r[i].url.text # frame_url[1]
               /\ pg # <<>>
                    => \E i \in DOMAIN r :
                          /\ r[i] = pg[1]
                          /\ r[i].url.text = frame_url[1]
                          /\ \A j \in DOMAIN r :
                                j > i => r[j].url.text # frame_url[1]

\* C14: the dialog state is one per process.  A pending expectation is
\* consumed by a confirm or prompt raised on either session's page; an alert
\* raised on either session's page is recorded in the one alert slot; a
\* wait_for_alert of either session returns the last alert recorded,
\* whichever page raised it, and leaves the slot empty, so that a wait of
\* either session fails by timeout only when no alert is left to take.
C14_DialogStateShared ==
    [][/\ \A s \in Sessions :
            /\ (PageConfirm(s) /\ confirm_expected # <<>>)
                 => /\ confirm_expected' = <<>>
                    /\ lastDialog'.status = "answered"
                    /\ lastDialog'.bval = confirm_expected[1].value
            /\ (PagePrompt(s) /\ prompt_expected # <<>>)
                 => /\ prompt_expected' = <<>>
                    /\ lastDialog'.status = "answered"
                    /\ lastDialog'.sval = prompt_expected[1].value
            /\ PageAlert(s) => alert' = <<PageMessage(s)>>
       /\ (~Idle /\ Idle' /\ outcome'.op = "wait_for_alert")
            => IF outcome'.status = "ok"
               THEN /\ alert # <<>>
                    /\ outcome'.value.val = alert[1]
                    /\ outcome'.value.val = lastAlert[1]
                    /\ alert' = <<>>
               ELSE /\ outcome'.err = "timeout"
                    /\ ~outcome'.alerted
                    /\ alert' = <<>>
      ]_vars

\* C14 witness: the second session's page raised an alert, and a
\* wait_for_alert of the first session returned its message and emptied the
\* slot, after a confirm raised on the second session's page had consumed
\* the expectation of a scope.
C14_Witness ==
    /\ Returned("wait_for_alert")
    /\ outcome.self = 1
    /\ outcome.value.val = PageMessage(2)
    /\ alert = <<>>
    /\ lastAlert = <<PageMessage(2)>>
    /\ scopes # <<>> /\ Last(scopes).kind = "confirm"
    /\ confirm_expected = <<>>

\* an operation of the session ends by returning a resource list
Drains(self) ==
    /\ ~Idle /\ Idle'
    /\ outcome'.status = "ok" /\ outcome'.self = self
    /\ outcome'.op \in DrainingOps

\* C15 as claimed: the load flag and the resource buffer are one per
\* process: a load callback of one session's page changes the flag the
\* other session's waits read, and an exchange completed for one session is
\* drained by the next draining operation of either session.
C15_LoadFlagAndBufferShared ==
    [][\A s \in Sessions : \A t \in Sessions :
          /\ PageLoaded(s) => loaded'[t]
          /\ PageLoadStarted(s) => ~loaded'[t]
          /\ Drains(s) => http_resources'[t] = <<>>
      ]_vars

\* C15 (amended): the load flag and the resource buffer are one per
\* session: a load callback of a session's page sets that session's flag
\* and leaves the other session's flag as it was; an exchange completed for
\* a session is appended to that session's buffer only; a draining
\* operation returns and empties the buffer of its own session only; and a
\* wait_for_page_loaded returns only with its own session's flag true.
C15_LoadFlagAndBufferPerSession ==
    [][\A s \in Sessions : \A t \in Sessions \ {s} :
          /\ PageLoaded(s) => (loaded'[s] /\ loaded'[t] = loaded[t])
          /\ PageLoadStarted(s) => (~loaded'[s] /\ loaded'[t] = loaded[t])
          /\ RequestEnded(s, "u1", 200, "ascii")
               => /\ Len(http_resources'[s]) = Len(http_resources[s]) + 1
                  /\ http_resources'[t] = http_resources[t]
          /\ Drains(s)
               => /\ outcome'.value.res = outcome'.expected
                  /\ http_resources'[s] = <<>>
                  /\ http_resources'[t] = http_resources[t]
          /\ (Drains(s) /\ outcome'.op = "wait_for_page_loaded")
               => loaded'[s]
          /\ (~Idle /\ stack[1].self = s)
               => (http_resources'[t] = http_resources[t]
                     \/ Len(http_resources'[t]) > Len(http_resources[t]))
      ]_vars

\* C15 witness: during operations of the first session the second session's
\* page finished a load and one of its exchanges completed; the first
\* session's flag is still false, its wait for the page has timed out, and
\* the second session's record is still in the second session's buffer.
C15_Witness ==
    /\ Done /\ outcome.self = 1 /\ outcome.op = "wait_for_page_loaded"
    /\ outcome.err = "timeout"
    /\ ~loaded[1] /\ loaded[2] /\ finishedSince[2]
    /\ Len(http_resources[2]) = 1 /\ http_resources[1] = <<>>

\* C16: when the engine delivers load-started and then load-finished for the
\* load that open requested, whether inside the load request or later from
\* the wait's event pump, open returns and does not time out.  (Stated as
\* claimed; open marks the page as not loaded after the load request, which
\* undoes a load-finished delivered inside it.)
C16_OpenReturnsWhenLoadDelivered ==
    (Done /\ outcome.op = "open" /\ outcome.load = "finished")
        => outcome.status = "ok"

\* C17: in the confirm hook and in the prompt hook the slot is empty by the
\* time the callback is invoked; a dialog of the same kind raised from
\* inside the callback fails as unhandled and does not invoke the callback
\* again; and a callback that raises leaves the slot empty.  (Stated as
\* claimed; the prompt hook empties its slot after the callback returned.)
C17_SlotEmptyWhileCallbackRuns ==
    [][/\ (Len(stack') > Len(stack) /\ Last(stack').pc = "callback")
            => IF Last(stack').fn = "javaScriptConfirm"
               THEN confirm_expected' = <<>>
               ELSE prompt_expected' = <<>>
       /\ (~Idle /\ Top.pc = "callback" /\ Top.fn = "javaScriptConfirm"
              /\ JavaScriptConfirm)
            => (lastDialog'.status = "unhandled" /\ UNCHANGED cbCalls)
       /\ (~Idle /\ Top.pc = "callback" /\ Top.fn = "javaScriptPrompt"
              /\ JavaScriptPrompt)
            => (lastDialog'.status = "unhandled" /\ UNCHANGED cbCalls)
       /\ (~Idle /\ Top.pc = "callback" /\ CallbackRaises)
            => IF Top.fn = "javaScriptConfirm"
               THEN confirm_expected' = <<>>
               ELSE prompt_expected' = <<>>
      ]_vars

\* the scopes of the kind the script is inside and since whose entry no
\* dialog of the kind was raised
Unfired(kind) == {i \in ActiveIds(kind) : ~scopeHist[i].fired}

\* C18 as claimed: while a scope of a kind is active and no dialog of the
\* kind was raised since it was entered, a dialog of the kind is answered
\* from an expectation and does not fail as unhandled, also after a scope
\* of the same kind was entered and exited inside it.
C18_ActiveScopeAnswers ==
    [][/\ (JavaScriptConfirm /\ Unfired("confirm") # {})
            => lastDialog'.status # "unhandled"
       /\ (JavaScriptPrompt /\ Unfired("prompt") # {})
            => lastDialog'.status # "unhandled"
      ]_vars

\* C18 (amended): while a scope of a kind is active, no dialog of the kind
\* was raised since it was entered and no scope of the same kind has exited
\* inside it, a dialog of the kind is answered from an expectation (the one
\* entered last) and does not fail as unhandled; the exit of a scope
\* empties the slot of its kind even when an enclosing scope of the same
\* kind is still active, and a dialog raised then fails as unhandled.
C18_ActiveScopeAnswersUntilInnerExit ==
    [][/\ (JavaScriptConfirm
              /\ \E i \in Unfired("confirm") : ~scopeHist[i].undone)
            => /\ lastDialog'.status \in {"answered", "calling"}
               /\ lastDialog'.eid = confirm_expected[1].id
               /\ \A i \in ActiveIds("confirm") : i <= lastDialog'.eid
       /\ (JavaScriptPrompt
              /\ \E i \in Unfired("prompt") : ~scopeHist[i].undone)
            => /\ lastDialog'.status \in {"answered", "calling"}
               /\ lastDialog'.eid = prompt_expected[1].id
               /\ \A i \in ActiveIds("prompt") : i <= lastDialog'.eid
       /\ (ConfirmExit /\ ActiveIds("confirm") # {Last(scopes).id})
            => (confirm_expected' = <<>> /\ ActiveIds("confirm")' # {})
       /\ (PromptExit /\ ActiveIds("prompt") # {Last(scopes).id})
            => (prompt_expected' = <<>> /\ ActiveIds("prompt")' # {})
       /\ (JavaScriptConfirm
              /\ \A i \in ActiveIds("confirm") :
                    scopeHist[i].undone /\ ~scopeHist[i].fired
              /\ lastDialog.kind = "none")
            => lastDialog'.status = "unhandled"
      ]_vars

\* C18 witness: inside a confirm scope a second confirm scope was entered
\* and has exited, no dialog was raised before, and the confirm raised now
\* has failed as unhandled.
C18_Witness ==
    /\ Len(scopes) = 1 /\ scopes[1].kind = "confirm"
    /\ scopeHist[scopes[1].id].undone
    /\ lastDialog.kind = "confirm" /\ lastDialog.status = "unhandled"
    /\ cbCalls = [i \in 1..MaxScopes |-> 0]

\* C19: a wait that fails by timeout leaves the resource buffer and the
\* alert slot as they were, and the records of the exchanges completed
\* before or during the failed wait are returned by the draining operation
\* that succeeds next.  (Stated as claimed; an operation called with
\* expect_loading returns only what is left after its action drained, so
\* the records a failed wait left in the buffer are lost to the caller.)
C19_FailedWaitKeepsResources ==
    [][/\ (~Idle /\ Idle' /\ outcome'.err = "timeout"
              /\ outcome'.op \in WaitOps)
            => /\ http_resources' = http_resources
               /\ http_resources'[1] = outcome'.expected
               /\ alert' = alert
       /\ (~Idle /\ Idle' /\ outcome'.status = "ok"
              /\ outcome'.op \in DrainingOps /\ outcome'.after = "timeout")
            => /\ Len(outcome'.value.res) >= Len(outcome'.kept)
               /\ SubSeq(outcome'.value.res, 1, Len(outcome'.kept))
                     = outcome'.kept
      ]_vars

\* C20: every iteration of wait_for polls the condition before it looks at
\* the deadline: a poll that finds the condition true returns, however much
\* time has elapsed, so the timeout error is raised only at a poll that
\* found the condition false; and a wait whose condition holds at its first
\* poll returns without sleeping, pumping the event loop or invoking the
\* wait callback.
C20_ConditionBeforeDeadline ==
    [][/\ (AtWait("wf_poll") /\ wait_for(1) /\ Condition(Top))
            => /\ stack' = Pop
               /\ outcome'.err # "timeout"
               /\ now' = now
       /\ (AtWait("wf_poll") /\ wait_for(1) /\ stack' = <<>>
              /\ outcome'.err = "timeout")
            => (~Condition(Top) /\ Expired(Top.t0))
       /\ (AtWait("wf_poll") /\ wait_for(1) /\ Condition(Top)
              /\ Top.pumps = 0)
            => /\ stack' = Pop
               /\ now = Top.t0 /\ now' = now
               /\ Top.cbs = 0
      ]_vars

\* C20 witness: with a wait callback configured, a wait for a selector
\* returned from a poll made after the timeout had elapsed, the element
\* having appeared during the last pump.
C20_Witness ==
    /\ Returned("wait_for_selector")
    /\ wait_callback[1] # <<>>
    /\ outcome.dur > WaitTimeout

\* the step is a call of _release_last_resources by the session
Releases(self) ==
    \/ evaluate(self)
    \/ wait_for_page_loaded(self) /\ Top.pc = "wp_drain"
    \/ wait_for_alert(self) /\ Top.pc = "wa_take"
    \/ wait_for_selector(self) /\ Top.pc = "ws_ret"

\* the resource list the step hands to the function that drained
HandedOver ==
    IF stack' = <<>> THEN outcome'.value.res
    ELSE IF Len(stack') = Len(stack) THEN Last(stack').rv.res
    ELSE ret'.res

IdsOf(q) == {q[i].id : i \in DOMAIN q}

\* C21: a drain hands over the buffer's contents and leaves the buffer
\* empty; no record is in the lists of two different drains; a drain with no
\* exchange completed since the previous drain hands over the empty list;
\* and the buffer loses records in no other step.
C21_NoRecordDrainedTwice ==
    [][/\ Releases(1)
            => /\ HandedOver = http_resources[1]
               /\ http_resources'[1] = <<>>
               /\ IdsOf(HandedOver) \cap drainHist[1].ids = {}
               /\ drainHist[1].quiet => HandedOver = <<>>
               /\ Cardinality(IdsOf(HandedOver)) = Len(HandedOver)
       /\ ~Releases(1)
            => /\ Len(http_resources'[1]) >= Len(http_resources[1])
               /\ drainHist'[1].ids = drainHist[1].ids
      ]_vars

\* C21 witness: two exchanges, each followed by a drain: the second drain
\* handed over the second record only.
C21_Witness ==
    /\ Done /\ outcome.status = "ok"
    /\ Len(outcome.value.res) = 1 /\ outcome.value.res[1].id = 2
    /\ drainHist[1].ids = {1, 2}
    /\ http_resources[1] = <<>>

\* the script is inside wait_for
InWait == ~Idle /\ Top.fn = "wait_for"

\* C22: every wait terminates: once the script is inside wait_for, the call
\* eventually ends, by returning to the wait operation or by raising.
C22_WaitTerminates == InWait ~> ~InWait

\* C22 witness: a wait that polled, slept and pumped twice has ended by the
\* timeout error.
C22_Witness ==
    /\ Done /\ outcome.err = "timeout" /\ outcome.waited
    /\ outcome.pumps = 2
    /\ outcome.elapsed > WaitTimeout

\* the step is a challenge delivered to session 1
Challenged == authHist'[1].challenges = authHist[1].challenges + 1

\* the step is a call of session 1's open
Opens == Idle /\ ~Idle' /\ Last(stack').fn = "open" /\ Last(stack').self = 1

\* C23: the credentials of an open are supplied at most once: the first
\* challenge after an open given credentials sets the authenticator's user
\* and password to them and takes the counter from 0 to 1, every other
\* challenge leaves the authenticator and the counter as they were, and a
\* call of open sets the counter to 0.
C23_CredentialsSuppliedOnce ==
    [][/\ Challenged =>
            IF auth[1] # <<>> /\ authHist[1].challenges = 0
            THEN /\ authenticator'[1] = [user |-> <<auth[1][1].user>>,
                                         password |-> <<auth[1][1].password>>]
                 /\ auth_attempt[1] = <<0>>
                 /\ auth_attempt'[1] = <<1>>
            ELSE /\ authenticator'[1] = NoAuthenticator
                 /\ auth_attempt'[1] = auth_attempt[1]
       /\ Opens => /\ auth_attempt'[1] = <<0>>
                   /\ authHist'[1] = NoAuthHist
       /\ authHist'[1].supplied <= 1]_vars

\* C23 witness: an open given credentials has ended; its first challenge
\* was answered with them and its second one left the authenticator
\* untouched.
C23_Witness ==
    /\ auth[1] = <<[user |-> "v", password |-> "q"]>>
    /\ authHist[1].challenges = 2
    /\ authHist[1].supplied = 1
    /\ auth_attempt[1] = <<1>>
    /\ authenticator[1] = NoAuthenticator
    /\ Done /\ outcome.op = "open"

\* the step is an attempt to construct a session
Constructs == initHist'.attempts = initHist.attempts + 1

\* C24: on a host that is not Windows, was started without a display and
\* cannot spawn Xvfb, every construction attempted fails with the 'Xvfb is
\* required' error, the first and every later one; and a process spawns
\* Xvfb at most once.
C24_NoDisplayAlwaysFails ==
    [][/\ (/\ Constructs
           /\ host.platform # "win32"
           /\ host.display = <<>>
           /\ ~host.xvfb_installed) => initHist'.err = "xvfb"
       /\ initHist'.spawns <= 1]_vars

=============================================================================
